---- MODULE Spec2Model ----
(***************************************************************************)
(* A model of chain/chain/src/chain_update.rs: the ChainUpdate helper that *)
(* stages the results of applying a block's chunks into a ChainStoreUpdate *)
(* and commits them as one unit.                                           *)
(*                                                                         *)
(* A block hash is the strictly increasing sequence of the heights on the  *)
(* path from genesis to the block, so that height, predecessor, last final *)
(* block and epoch are functions of the hash, as they are of a header.     *)
(***************************************************************************)
EXTENDS Integers, Sequences, FiniteSets

\* ------------------------------------------------------------ bounds
\* Largest block height of the header universe.
MaxHeight == 3
\* Most blocks and headers saved on top of genesis in one behaviour.
MaxBlocks == 3
\* Gas used and balance burnt of an apply result range over 0..MaxGas (and 100).
MaxGas == 7
\* Most children the next epoch's shard layout gives the split shard.
MaxChildren == 3
\* Heights per epoch.
EpochLength == 2
\* Most incoming receipt proofs of known source in a snapshot header.
MaxProofs == 2

\* ------------------------------------------------------------ values
None == <<>>
Some(x) == <<x>>
\* A Result: Ok(v), Err(e), or the panic of an assertion or a todo!().
Ok(v) == [t |-> "Ok", v |-> <<v>>, e |-> "none"]
Err(e) == [t |-> "Err", v |-> <<>>, e |-> e]
Panic(m) == [t |-> "Panic", v |-> <<>>, e |-> m]
IsOk(r) == r.t = "Ok"
Val(r) == r.v[1]

RECURSIVE SortedSeq(_)
SortedSeq(S) ==
    IF S = {} THEN <<>>
    ELSE LET m == CHOOSE x \in S : \A y \in S : x <= y
         IN <<m>> \o SortedSeq(S \ {m})

\* ------------------------------------------------------------ headers
\* CryptoHash::default(): the hash that names no block.
DefaultHash == <<>>
GenesisHash == <<0>>
Hashes == { <<0>> \o SortedSeq(S) : S \in SUBSET (1..MaxHeight) }

height(h) == h[Len(h)]
prev_hash(h) == SubSeq(h, 1, Len(h) - 1)
epoch_id(h) == height(h) \div EpochLength
\* The last final block a header names: its predecessor when the block follows
\* it at the very next height, and else the one its predecessor names.
RECURSIVE last_final_block(_)
last_final_block(h) ==
    IF Len(h) <= 1 THEN DefaultHash
    ELSE IF height(h) = height(prev_hash(h)) + 1 THEN prev_hash(h)
    ELSE last_final_block(prev_hash(h))

\* Tip::from_header
TipFromHeader(h) == [last_block_hash |-> h, height |-> height(h)]

\* ------------------------------------------------------------ shards
\* A ShardUId is <<layout version, shard id>>.  The current layout (version 1)
\* has the shards 0 and 1; in the next epoch's layout (version 2) shard 0 is
\* split into n children with the ids 0..n-1 and shard 1 has the one child n.
SplitShard == <<1, 0>>
PlainShard == <<1, 1>>
ChildShards(n) == { <<2, i>> : i \in 0..(n - 1) }
AllChildShards == ChildShards(MaxChildren)
shard_id(shard_uid) == shard_uid[2]
\* The derived order of ShardUId: by version, then by shard id.
ShardUIdLess(a, b) == a[1] < b[1] \/ (a[1] = b[1] /\ a[2] < b[2])

\* ShardLayout::get_children_shards_uids of the next epoch's layout.
get_children_shards_uids(layout, parent_shard_id) ==
    IF parent_shard_id = 0 THEN ChildShards(layout.num_children)
    ELSE {<<2, layout.num_children>>}
\* account_id_to_shard_uid: account ids are numbers, spread over the children
\* of the split shard.
account_id_to_shard_uid(account_id, layout) ==
    <<2, account_id % layout.num_children>>

GasValues == (0..MaxGas) \cup {100}

\* ChunkExtra::new
NewChunkExtra(state_root, outcome_root, validator_proposals, gas_used, gas_limit, balance_burnt, congestion_info) ==
    [ state_root |-> state_root, outcome_root |-> outcome_root,
      validator_proposals |-> validator_proposals, gas_used |-> gas_used,
      gas_limit |-> gas_limit, balance_burnt |-> balance_burnt,
      congestion_info |-> congestion_info ]

\* ------------------------------------------------------------ the store
\* What a failing call of a collaborator is named by: the call, and the shard
\* it is made for (NoShard when it is made once for the block).
NoShard == <<0, 0>>
NoFail == [step |-> "none", shard |-> NoShard]
Fails(fail, step, shard_uid) == fail.step = step /\ fail.shard = shard_uid

Upd(f, k, v) == [x \in (DOMAIN f) \cup {k} |-> IF x = k THEN v ELSE f[x]]

\* The chain store at genesis: the genesis block with a ChunkExtra per shard of
\* the current layout, and the three tips at genesis.
GenesisChunkExtra(shard_uid) ==
    NewChunkExtra(<<GenesisHash, shard_uid>>, <<"outcomes", GenesisHash, shard_uid>>,
                  <<>>, 0, MaxGas, 0, None)
GenesisStore ==
    [ headers |-> {GenesisHash},
      blocks |-> {GenesisHash},
      chunk_extras |-> [k \in {<<GenesisHash, SplitShard>>, <<GenesisHash, PlainShard>>}
                          |-> GenesisChunkExtra(k[2])],
      header_head |-> TipFromHeader(GenesisHash),
      head |-> TipFromHeader(GenesisHash),
      final_head |-> TipFromHeader(GenesisHash),
      challenged |-> {},
      refcount |-> [h \in {GenesisHash} |-> 0],
      records |-> {} ]

\* A ChainUpdate w holds w.s, the store as its ChainStoreUpdate reads it (the
\* committed store overlaid with the writes staged so far), w.staged, the keys
\* of the writes staged, and w.flat, the flat storage heads, which the flat
\* storage manager keeps outside the ChainStoreUpdate.
get_block_header(w, hash) ==
    IF hash \in w.s.headers THEN Ok(hash) ELSE Err("DBNotFoundErr")
get_chunk_extra(w, block_hash, shard_uid) ==
    IF <<block_hash, shard_uid>> \in DOMAIN w.s.chunk_extras
    THEN Ok(w.s.chunk_extras[<<block_hash, shard_uid>>])
    ELSE Err("DBNotFoundErr")
save_chunk_extra(w, block_hash, shard_uid, chunk_extra) ==
    [w EXCEPT !.s.chunk_extras = Upd(@, <<block_hash, shard_uid>>, chunk_extra),
              !.staged = @ \cup {<<"ChunkExtra", block_hash, shard_uid>>}]
\* A write of a record that is only ever added: trie changes, flat state
\* changes, receipts, outcomes, catch-up entries and the like.
Put(w, key) ==
    [w EXCEPT !.s.records = @ \cup {key}, !.staged = @ \cup {key}]
save_trie_changes(w, block_hash, shard_uid) ==
    Put(w, <<"TrieChanges", block_hash, shard_uid>>)
\* The flat state changes written through to the committed store.
merge_flat_state_changes_written_through(w, block_hash, shard_uid) ==
    [Put(w, <<"FlatStateChanges", block_hash, shard_uid>>)
        EXCEPT !.db.records = @ \cup {<<"FlatStateChanges", block_hash, shard_uid>>}]
\* FlatStorageManager::save_flat_state_changes followed by merge(store_update).
merge_flat_state_changes(w, block_hash, shard_uid) ==
    Put(w, <<"FlatStateChanges", block_hash, shard_uid>>)
\* FlatStorageManager::update_flat_storage_for_shard: moves the shard's flat
\* head at once; it hands back no store update to merge.
update_flat_storage_for_shard(w, shard_uid, hash) ==
    [w EXCEPT !.flat = Upd(@, shard_uid, hash)]

\* ------------------------------------------------------------ resharding
\* An operation's outcome: the ChainUpdate after it and what it returned.
Out(w, res) == [w |-> w, res |-> res]

\* The apply result of one child of a split: its shard and its state root (its
\* trie changes are named by the same pair).
ChildResult(block_hash, shard_uid) ==
    [shard_uid |-> shard_uid, new_root |-> <<block_hash, shard_uid>>]

RECURSIVE SortResults(_)
SortResults(results) ==
    IF results = <<>> THEN <<>>
    ELSE LET i == CHOOSE i \in 1..Len(results) :
                      \A j \in 1..Len(results) :
                          ~ShardUIdLess(results[j].shard_uid, results[i].shard_uid)
         IN <<results[i]>> \o
            SortResults(SubSeq(results, 1, i - 1) \o SubSeq(results, i + 1, Len(results)))
\* The results left in the order they came in.
unsorted(results) == results
\* The results sorted by descending shard_uid.
sort_descending(results) ==
    [i \in DOMAIN results |-> SortResults(results)[Len(results) + 1 - i]]
\* results.sort_unstable_by_key(|r| r.shard_uid)
sort_unstable_by_key(results) == SortResults(results)

\* Every proposal handed to the first child of the layout.
validator_proposals_to_first_child(validator_proposals, layout) ==
    [su \in {<<2, 0>>} |-> validator_proposals]

\* The parent's validator proposals grouped by the child shard that owns the
\* account in the next epoch's layout, each group in the parent's order.
validator_proposals_by_shard(validator_proposals, layout) ==
    [ su \in { account_id_to_shard_uid(validator_proposals[i], layout) :
                 i \in DOMAIN validator_proposals }
        |-> SelectSeq(validator_proposals,
                      LAMBDA a : account_id_to_shard_uid(a, layout) = su) ]

\* The gas a child is given: the quotient, and one unit of the remainder while
\* there is some left.
child_gas_burnt(gas_res, gas_split) ==
    IF gas_res > 0 THEN gas_split + 1 ELSE gas_split
\* The quotient alone: the remainder is given to no child.
child_balance_burnt_without_remainder(balance_res, balance_split) == balance_split
\* The balance a child is given, likewise.
child_balance_burnt(balance_res, balance_split) ==
    IF balance_res > 0 THEN balance_split + 1 ELSE balance_split

\* The child's ChunkExtra saved under the parent's shard.
parent_extra_key(parent_shard_uid, result) == parent_shard_uid
\* The shard a child's ChunkExtra is saved under.
child_extra_key(parent_shard_uid, result) == result.shard_uid

\* The child's ChunkExtra with an outcome root of its own.
child_chunk_extra_with_own_outcomes(c, result, proposals, gas_burnt, balance_burnt) ==
    NewChunkExtra(result.new_root, <<"outcomes", c.block, result.shard_uid>>, proposals,
                  gas_burnt, c.gas_limit, balance_burnt, None)

\* ChunkExtra::new for a child: the parent's outcome root and gas limit, the
\* child's own state root and its share of proposals, gas and balance.
child_chunk_extra(c, result, proposals, gas_burnt, balance_burnt) ==
    NewChunkExtra(result.new_root, c.outcome_root, proposals,
                  gas_burnt, c.gas_limit, balance_burnt, None)

\* The feature taken for disabled at every protocol version.
congestion_control_never_enabled(c) ==
    FALSE

\* ProtocolFeature::CongestionControl.enabled(protocol_version)
congestion_control_enabled(c) ==
    c.congestion_control

\* The results taken as they come, uncounted.
results_not_counted(num_split_shards, results) ==
    TRUE

\* assert_eq!(num_split_shards, results.len() as u64)
results_for_every_split_shard(num_split_shards, results) ==
    num_split_shards = Len(results)

\* The loop over the sorted child results.  c holds what the loop reads and
\* does not change; acc holds gas_res, balance_res, the two sums and the
\* proposals not yet handed out.
RECURSIVE resharding_loop(_, _, _, _)
resharding_loop(w, c, results, acc) ==
    IF results = <<>> THEN Out(w, Ok(acc))
    ELSE
    LET result == Head(results)
        gas_burnt == child_gas_burnt(acc.gas_res, c.gas_split)
        balance_burnt == child_balance_burnt(acc.balance_res, c.balance_split)
        proposals == IF result.shard_uid \in DOMAIN acc.by_shard
                     THEN acc.by_shard[result.shard_uid] ELSE <<>>
        new_chunk_extra == child_chunk_extra(c, result, proposals, gas_burnt, balance_burnt)
        acc1 == [ gas_res |-> IF acc.gas_res > 0 THEN acc.gas_res - 1 ELSE acc.gas_res,
                  balance_res |-> IF acc.balance_res > 0 THEN acc.balance_res - 1
                                  ELSE acc.balance_res,
                  sum_gas_used |-> acc.sum_gas_used + gas_burnt,
                  sum_balance_burnt |-> acc.sum_balance_burnt + balance_burnt,
                  by_shard |-> [su \in (DOMAIN acc.by_shard) \ {result.shard_uid}
                                  |-> acc.by_shard[su]] ]
        last_final_block_hash == last_final_block(c.block)
        w1 == IF last_final_block_hash # DefaultHash
              THEN update_flat_storage_for_shard(w, result.shard_uid, last_final_block_hash)
              ELSE w
        w2 == merge_flat_state_changes(w1, c.block, result.shard_uid)
        w3 == save_chunk_extra(w2, c.block, child_extra_key(c.shard_uid, result),
                               new_chunk_extra)
        w4 == save_trie_changes(w3, c.block, result.shard_uid)
    IN  IF congestion_control_enabled(c)
        THEN Out(w, Panic("todo: resharding and congestion control"))
        ELSE IF Fails(c.fail, "save_flat_state_changes", result.shard_uid)
        THEN Out(w, Err("StorageError"))
        ELSE IF last_final_block_hash # DefaultHash
                /\ Fails(c.fail, "update_flat_storage_for_shard", result.shard_uid)
        THEN Out(w, Err("StorageError"))
        ELSE resharding_loop(w4, c, Tail(results), acc1)

\* ReshardingResults::ApplyReshardingResults(results): each result is the
\* apply result of one child.  ReshardingResults::StoreReshardingResults: the
\* state changes are kept for later.
process_resharding_results(w, env, fail, block, shard_uid, resharding_results) ==
    IF resharding_results.kind = "Store"
    THEN Out(Put(w, <<"StateChangesForResharding", block, shard_uid>>), Ok("unit"))
    ELSE
    LET results == sort_unstable_by_key(resharding_results.results)
        chunk_extra == get_chunk_extra(w, block, shard_uid)
        layout == [num_children |-> env.num_children]
        num_split_shards == Cardinality(get_children_shards_uids(layout, shard_id(shard_uid)))
        total_gas_used == Val(chunk_extra).gas_used
        total_balance_burnt == Val(chunk_extra).balance_burnt
        c == [ block |-> block, shard_uid |-> shard_uid, fail |-> fail,
               gas_split |-> total_gas_used \div num_split_shards,
               balance_split |-> total_balance_burnt \div num_split_shards,
               gas_limit |-> Val(chunk_extra).gas_limit,
               outcome_root |-> Val(chunk_extra).outcome_root,
               congestion_control |-> env.congestion_control ]
        acc == [ gas_res |-> total_gas_used % num_split_shards,
                 balance_res |-> total_balance_burnt % num_split_shards,
                 sum_gas_used |-> 0, sum_balance_burnt |-> 0,
                 by_shard |-> validator_proposals_by_shard(
                                  Val(chunk_extra).validator_proposals, layout) ]
        looped == resharding_loop(w, c, results, acc)
    IN  IF ~IsOk(chunk_extra) THEN Out(w, chunk_extra)
        ELSE IF Fails(fail, "epoch_manager", shard_uid) THEN Out(w, Err("EpochError"))
        ELSE IF ~results_for_every_split_shard(num_split_shards, results)
        THEN Out(w, Panic("assert_eq!(num_split_shards, results.len())"))
        ELSE IF ~IsOk(looped.res) THEN looped
        ELSE IF Val(looped.res).sum_gas_used # total_gas_used
        THEN Out(looped.w, Panic("assert_eq!(sum_gas_used, total_gas_used)"))
        ELSE IF Val(looped.res).sum_balance_burnt # total_balance_burnt
        THEN Out(looped.w, Panic("assert_eq!(sum_balance_burnt, total_balance_burnt)"))
        ELSE Out(looped.w, Ok("unit"))

\* ------------------------------------------------------------ shard results
\* ShardUpdateResult: NewChunk, OldChunk or Resharding.  apply_result holds
\* the fields of ApplyChunkResult the ChainUpdate reads; resharding_results is
\* None or Some(ReshardingResults).
ApplyResult(block_hash, shard_uid, gas, balance, proposals, congestion_info) ==
    [ new_root |-> <<block_hash, shard_uid>>,
      total_gas_burnt |-> gas, total_balance_burnt |-> balance,
      validator_proposals |-> proposals, congestion_info |-> congestion_info ]
ShardUpdateResult(kind, shard_uid, apply_result, resharding_results) ==
    [ kind |-> kind, shard_uid |-> shard_uid, gas_limit |-> MaxGas,
      apply_result |-> apply_result, resharding_results |-> resharding_results ]
ApplyReshardingResults(results) == [kind |-> "Apply", results |-> results]
StoreReshardingResults == [kind |-> "Store", results |-> <<>>]

\* The optional resharding step that ends the NewChunk and OldChunk arms.
process_optional_resharding(w, env, fail, block, result) ==
    IF result.resharding_results = None THEN Out(w, Ok("unit"))
    ELSE process_resharding_results(w, env, fail, block, result.shard_uid,
                                    result.resharding_results[1])

state_transition_data(w, save, block, shard_uid) ==
    IF save THEN Put(w, <<"StateTransitionData", block, shard_id(shard_uid)>>) ELSE w

process_new_chunk(w, env, fail, block, result, save) ==
    LET shard_uid == result.shard_uid
        apply_result == result.apply_result
        outcome_root == <<"outcomes", block, shard_uid>>
        w1 == save_chunk_extra(w, block, shard_uid,
                  NewChunkExtra(apply_result.new_root, outcome_root,
                                apply_result.validator_proposals,
                                apply_result.total_gas_burnt, result.gas_limit,
                                apply_result.total_balance_burnt,
                                apply_result.congestion_info))
        w2 == merge_flat_state_changes(w1, block, shard_uid)
        w3 == save_trie_changes(w2, block, shard_uid)
        w4 == Put(w3, <<"OutgoingReceipts", block, shard_id(shard_uid)>>)
        w5 == Put(w4, <<"Outcomes", block, shard_id(shard_uid)>>)
        w6 == state_transition_data(w5, save, block, shard_uid)
    IN  IF Fails(fail, "epoch_manager", shard_uid) THEN Out(w, Err("EpochError"))
        ELSE IF Fails(fail, "save_flat_state_changes", shard_uid)
        THEN Out(w1, Err("StorageError"))
        ELSE process_optional_resharding(w6, env, fail, block, result)

\* The ChunkExtra of a block with no new chunk of the shard, were the
\* predecessor's taken as it is.
old_chunk_extra_unchanged(old_extra, apply_result) ==
    old_extra
\* The ChunkExtra of a block with no new chunk of the shard: a clone of the
\* predecessor's, with the state root of the apply result.
old_chunk_extra_with_new_root(old_extra, apply_result) ==
    [old_extra EXCEPT !.state_root = apply_result.new_root]

process_old_chunk(w, env, fail, block, result, save) ==
    LET shard_uid == result.shard_uid
        old_extra == get_chunk_extra(w, prev_hash(block), shard_uid)
        new_extra == old_chunk_extra_with_new_root(Val(old_extra), result.apply_result)
        w1 == merge_flat_state_changes(w, block, shard_uid)
        w2 == save_chunk_extra(w1, block, shard_uid, new_extra)
        w3 == save_trie_changes(w2, block, shard_uid)
        w4 == state_transition_data(w3, save, block, shard_uid)
    IN  IF ~IsOk(old_extra) THEN Out(w, old_extra)
        ELSE IF Fails(fail, "save_flat_state_changes", shard_uid)
        THEN Out(w, Err("StorageError"))
        ELSE process_optional_resharding(w4, env, fail, block, result)

process_apply_chunk_result(w, env, fail, block, result, save) ==
    CASE result.kind = "NewChunk" -> process_new_chunk(w, env, fail, block, result, save)
      [] result.kind = "OldChunk" -> process_old_chunk(w, env, fail, block, result, save)
      [] result.kind = "Resharding" ->
            process_resharding_results(w, env, fail, block, result.shard_uid,
                                       result.resharding_results[1])

RECURSIVE apply_results_loop(_, _, _, _, _, _)
apply_results_loop(w, env, fail, block, apply_results, save) ==
    IF apply_results = <<>> THEN Out(w, Ok("unit"))
    ELSE LET r == process_apply_chunk_result(w, env, fail, block, Head(apply_results), save)
         IN IF ~IsOk(r.res) THEN r
            ELSE apply_results_loop(r.w, env, fail, block, Tail(apply_results), save)
apply_chunk_postprocessing(w, env, fail, block, apply_results, save) ==
    apply_results_loop(w, env, fail, block, apply_results, save)

\* ------------------------------------------------------------ tips
save_header_head_if_not_challenged(w, tip) ==
    [w EXCEPT !.s.header_head = tip, !.staged = @ \cup {<<"HeaderHead">>}]
save_body_head(w, tip) ==
    [w EXCEPT !.s.head = tip, !.staged = @ \cup {<<"Head">>}]
save_final_head(w, tip) ==
    [w EXCEPT !.s.final_head = tip, !.staged = @ \cup {<<"FinalHead">>}]
\* ChainStoreUpdate::save_head: the body head and the header head.
save_head(w, tip) == save_header_head_if_not_challenged(save_body_head(w, tip), tip)
save_challenged_block(w, hash) ==
    [w EXCEPT !.s.challenged = @ \cup {hash},
              !.staged = @ \cup {<<"ChallengedBlock", hash>>}]
save_block_header(w, header) ==
    [w EXCEPT !.s.headers = @ \cup {header},
              !.staged = @ \cup {<<"BlockHeader", header>>}]
save_block(w, block) ==
    [w EXCEPT !.s.blocks = @ \cup {block}, !.staged = @ \cup {<<"Block", block>>}]
inc_block_refcount(w, hash) ==
    [w EXCEPT !.s.refcount = Upd(@, hash, IF hash \in DOMAIN @ THEN @[hash] + 1 ELSE 1),
              !.staged = @ \cup {<<"BlockRefCount", hash>>}]
\* The block on the canonical chain at a height: the header head's ancestor
\* (or the header head itself) of that height.
get_block_hash_by_height(w, block_height) ==
    LET chain == w.s.header_head.last_block_hash
    IN  IF \E i \in 1..Len(chain) : chain[i] = block_height
        THEN Ok(SubSeq(chain, 1, CHOOSE i \in 1..Len(chain) : chain[i] = block_height))
        ELSE Err("DBNotFoundErr")

\* The comparison with >= for >.
header_height_reaches(header, tip) == height(header) >= tip.height
header_height_exceeds(header, tip) == height(header) > tip.height

update_header_head_if_not_challenged(w, fail, header) ==
    LET header_head == w.s.header_head
        tip == TipFromHeader(header)
    IN  IF Fails(fail, "header_head", NoShard) THEN Out(w, Err("StorageError"))
        ELSE IF header_height_exceeds(header, header_head)
        THEN IF Fails(fail, "save_header_head", NoShard) THEN Out(w, Err("StorageError"))
             ELSE Out(save_header_head_if_not_challenged(w, tip), Ok(Some(tip)))
        ELSE Out(w, Ok(None))

\* The comparison with # for >.
final_height_differs(last_final_block_header, final_head) ==
    height(last_final_block_header) # final_head.height
final_height_exceeds(last_final_block_header, final_head) ==
    height(last_final_block_header) > final_head.height

\* The header of a block's last final block, as the store answers; the
\* header is not found when the store has lost it.
get_last_final_block_header(w, fail, hash) ==
    IF Fails(fail, "last_final_block_header", NoShard) THEN Err("DBNotFoundErr")
    ELSE get_block_header(w, hash)

update_final_head_from_block(w, fail, header) ==
    LET final_head == w.s.final_head
        last_final_block_header ==
            get_last_final_block_header(w, fail, last_final_block(header))
        tip == TipFromHeader(Val(last_final_block_header))
    IN  IF Fails(fail, "final_head", NoShard) THEN Out(w, Err("StorageError"))
        ELSE IF ~IsOk(last_final_block_header) THEN Out(w, Ok(None))
        ELSE IF final_height_exceeds(Val(last_final_block_header), final_head)
        THEN Out(save_final_head(w, tip), Ok(Some(tip)))
        ELSE Out(w, Ok(None))

\* The comparison with < for >.
body_height_below(header, head) == height(header) < head.height
body_height_exceeds(header, head) == height(header) > head.height

update_head(w, fail, header) ==
    LET final == update_final_head_from_block(w, fail, header)
        head == final.w.s.head
        tip == TipFromHeader(header)
    IN  IF ~IsOk(final.res) THEN final
        ELSE IF Fails(fail, "head", NoShard) THEN Out(final.w, Err("StorageError"))
        ELSE IF body_height_exceeds(header, head)
        THEN Out(save_body_head(final.w, tip), Ok(Some(tip)))
        ELSE Out(final.w, Ok(None))

\* The block whose header is not found: nothing is recorded.
unknown_block_ignored(w, block_hash) ==
    w

\* The block whose header is not found is recorded as challenged.
unknown_block_challenged(w, block_hash) ==
    save_challenged_block(w, block_hash)

\* Every challenged block taken for the block of its height on the chain.
any_block_at_height(cur_block_at_same_height, block_hash) ==
    TRUE

\* cur_block_at_same_height is the Ok or Err of get_block_hash_by_height,
\* read as Some(hash) or None.
is_cur_block_at_same_height(cur_block_at_same_height, block_hash) ==
    IsOk(cur_block_at_same_height) /\ Val(cur_block_at_same_height) = block_hash

\* The comparison with < for >.
challenger_height_below(challenger_header, prev_height) ==
    height(challenger_header) < prev_height

challenger_height_exceeds(challenger_header, prev_height) ==
    height(challenger_header) > prev_height

\* The final head left as it was.
keep_final_head(w, new_head_header) ==
    Out(w, Ok("unit"))

\* The final head follows the new head's last final block.
save_new_final_head(w, new_head_header) ==
    LET new_final_header == get_block_header(w, last_final_block(new_head_header))
    IN  IF ~IsOk(new_final_header) THEN Out(w, new_final_header)
        ELSE Out(save_final_head(w, TipFromHeader(Val(new_final_header))), Ok("unit"))

\* challenger_hash is None or Some(hash).
mark_block_as_challenged(w, fail, block_hash, challenger_hash) ==
    LET block_header == get_block_header(w, block_hash)
        cur_block_at_same_height == get_block_hash_by_height(w, height(block_hash))
        w1 == save_challenged_block(w, block_hash)
        prev_header == get_block_header(w1, prev_hash(block_hash))
        challenger_header == get_block_header(w1, challenger_hash[1])
        new_head_header ==
            IF challenger_hash # None
            THEN IF challenger_height_exceeds(Val(challenger_header), height(Val(prev_header)))
                 THEN Val(challenger_header) ELSE Val(prev_header)
            ELSE Val(prev_header)
        w2 == save_head(w1, TipFromHeader(new_head_header))
    IN  IF Fails(fail, "get_block_header", NoShard) THEN Out(w, Err("StorageError"))
        ELSE IF ~IsOk(block_header) THEN Out(unknown_block_challenged(w, block_hash), Ok("unit"))
        ELSE IF ~is_cur_block_at_same_height(cur_block_at_same_height, block_hash)
        THEN Out(w1, Ok("unit"))
        ELSE IF ~IsOk(prev_header) THEN Out(w1, prev_header)
        ELSE IF challenger_hash # None /\ ~IsOk(challenger_header)
        THEN Out(w1, challenger_header)
        ELSE save_new_final_head(w2, new_head_header)

\* ------------------------------------------------------------ postprocess_block
\* BlockPreprocessInfo: is_caught_up, the shard ids with incoming receipts,
\* whether there is a state_sync_info, and the challenged blocks.
BlockPreprocessInfo(is_caught_up, incoming_receipts, state_sync_info, challenged_blocks) ==
    [ is_caught_up |-> is_caught_up, incoming_receipts |-> incoming_receipts,
      state_sync_info |-> state_sync_info, challenged_blocks |-> challenged_blocks ]

\* The results that are Ok, the errors left out.
collect_ok_results(apply_chunks_results) ==
    LET oks == SelectSeq(apply_chunks_results, LAMBDA r : IsOk(r.result))
    IN  Ok([i \in DOMAIN oks |-> Val(oks[i].result)])
\* collect::<Result<Vec<_>, Error>>(): the results when all are Ok, and else
\* the first error.
collect_results(apply_chunks_results) ==
    IF \E i \in DOMAIN apply_chunks_results : ~IsOk(apply_chunks_results[i].result)
    THEN apply_chunks_results[
             CHOOSE i \in DOMAIN apply_chunks_results :
                 /\ ~IsOk(apply_chunks_results[i].result)
                 /\ \A j \in 1..(i - 1) : IsOk(apply_chunks_results[j].result)].result
    ELSE Ok([i \in DOMAIN apply_chunks_results |-> Val(apply_chunks_results[i].result)])

RECURSIVE save_incoming_receipts(_, _, _)
save_incoming_receipts(w, block, shard_ids) ==
    IF shard_ids = {} THEN w
    ELSE LET sid == CHOOSE x \in shard_ids : TRUE
         IN save_incoming_receipts(Put(w, <<"IncomingReceipts", block, sid>>),
                                   block, shard_ids \ {sid})

RECURSIVE mark_challenged_blocks(_, _, _, _)
mark_challenged_blocks(w, fail, block, challenged_blocks) ==
    IF challenged_blocks = <<>> THEN Out(w, Ok("unit"))
    ELSE LET r == mark_block_as_challenged(w, fail, Head(challenged_blocks), Some(block))
         IN IF ~IsOk(r.res) THEN r
            ELSE mark_challenged_blocks(r.w, fail, block, Tail(challenged_blocks))

save_epoch_light_client_block(w, epoch, header) ==
    [w EXCEPT !.s.records = { k \in @ : ~(k[1] = "EpochLightClientBlock" /\ k[2] = epoch) }
                              \cup {<<"EpochLightClientBlock", epoch, header>>},
              !.staged = @ \cup {<<"EpochLightClientBlock", epoch, header>>}]

create_light_client_block(w, fail, header) ==
    LET w1 == Put(w, <<"NextBlockHash", prev_hash(header), header>>)
    IN  IF Fails(fail, "create_light_client_block", NoShard)
        THEN Out(w1, Err("Other"))
        ELSE Out(w1, Ok(header))

\* The epoch switch alone, whatever the predecessor names as last final.
on_epoch_switch(block, prev) ==
    epoch_id(block) # epoch_id(prev)
\* "On the epoch switch record the epoch light client block": the block's
\* epoch is not its predecessor's, and the predecessor names a last final
\* block.
on_epoch_switch_with_final_block(block, prev) ==
    epoch_id(block) # epoch_id(prev) /\ last_final_block(prev) # DefaultHash

\* The steps after the head update, taken when the block became the head.
head_moved_bookkeeping(w, fail, block) ==
    LET prev == get_block_header(w, prev_hash(block))
        prev_epoch_id == epoch_id(Val(prev))
        lcb == create_light_client_block(w, fail, Val(prev))
        w1 == IF on_epoch_switch_with_final_block(block, Val(prev))
              THEN save_epoch_light_client_block(lcb.w, prev_epoch_id, Val(lcb.res))
              ELSE w
    IN  IF ~IsOk(prev) THEN Out(w, prev)
        ELSE IF on_epoch_switch_with_final_block(block, Val(prev)) /\ ~IsOk(lcb.res)
        THEN lcb
        ELSE IF Fails(fail, "get_shard_layout_from_prev_block", NoShard)
        THEN Out(w1, Err("EpochError"))
        ELSE Out(w1, Ok("unit"))

\* The steps from the block extra to the end, after the shard results.
postprocess_block_tail(w, fail, block, info) ==
    LET w1 == IF ~info.is_caught_up
              THEN Put(w, <<"BlocksToCatchup", prev_hash(block), block>>) ELSE w
        w2 == save_incoming_receipts(w1, block, info.incoming_receipts)
        w3 == IF info.state_sync_info THEN Put(w2, <<"StateSyncInfo", block>>) ELSE w2
        w4 == Put(w3, <<"BlockExtra", block>>)
        marked == mark_challenged_blocks(w4, fail, block, info.challenged_blocks)
        w5 == save_block_header(marked.w, block)
        header_head == update_header_head_if_not_challenged(w5, fail, block)
        last_final ==
            get_last_final_block_header(header_head.w, fail, last_final_block(block))
        w6 == Put(header_head.w, <<"BlockInfo", block>>)
        w7 == inc_block_refcount(save_block(w6, block), prev_hash(block))
        res == update_head(w7, fail, block)
        moved == head_moved_bookkeeping(res.w, fail, block)
    IN  IF ~IsOk(marked.res) THEN marked
        ELSE IF Fails(fail, "save_block_header", NoShard) THEN Out(marked.w, Err("StorageError"))
        ELSE IF ~IsOk(header_head.res) THEN header_head
        ELSE IF last_final_block(block) # DefaultHash /\ ~IsOk(last_final)
        THEN Out(header_head.w, last_final)
        ELSE IF Fails(fail, "add_validator_proposals", NoShard)
        THEN Out(header_head.w, Err("EpochError"))
        ELSE IF Fails(fail, "inc_block_refcount", NoShard)
        THEN Out(save_block(w6, block), Err("StorageError"))
        ELSE IF ~IsOk(res.res) THEN res
        ELSE IF Val(res.res) = None THEN res
        ELSE IF ~IsOk(moved.res) THEN moved
        ELSE Out(moved.w, res.res)

postprocess_block(w, env, fail, block, info, apply_chunks_results, save) ==
    LET results == collect_results(apply_chunks_results)
        applied == apply_chunk_postprocessing(w, env, fail, block, Val(results), save)
    IN  IF ~IsOk(results) THEN Out(w, results)
        ELSE IF ~IsOk(applied.res) THEN applied
        ELSE postprocess_block_tail(applied.w, fail, block, info)

\* ------------------------------------------------------------ state sync
\* The snapshot header of a shard: the chunk (the height of the block that
\* included it and the state root it starts from) and the incoming receipt
\* proofs, each named by the hash of its source block.
ShardStateSyncResponseHeader(height_included, prev_state_root, incoming_receipts_proofs) ==
    [ chunk |-> [height_included |-> height_included, prev_state_root |-> prev_state_root],
      incoming_receipts_proofs |-> incoming_receipts_proofs ]

\* An outcome with the calls made to the execution engine on the way.
SyncOut(w, res, applied) == [w |-> w, res |-> res, applied |-> applied]

get_block(w, hash) ==
    IF hash \in w.s.blocks THEN Ok(hash) ELSE Err("DBNotFoundErr")

\* ChainStoreUpdate::get_block_header_on_chain_by_height: walks back from
\* sync_hash while the header is above the height; the header reached must be
\* at the height.
get_block_header_on_chain_by_height(w, fail, sync_hash, block_height) ==
    LET i == CHOOSE i \in 1..Len(sync_hash) :
                 /\ sync_hash[i] <= block_height
                 /\ \A j \in (i + 1)..Len(sync_hash) : sync_hash[j] > block_height
        walked == { SubSeq(sync_hash, 1, j) : j \in i..Len(sync_hash) }
    IN  IF Fails(fail, "get_block_header_on_chain_by_height", NoShard)
        THEN Err("StorageError")
        ELSE IF ~(walked \subseteq w.s.headers) THEN Err("DBNotFoundErr")
        ELSE IF sync_hash[i] < block_height THEN Err("InvalidBlockHeight")
        ELSE Ok(SubSeq(sync_hash, 1, i))

\* EpochManager::shard_id_to_uid in the current layout.
shard_id_to_uid(sid) == <<1, sid>>

\* One call of RuntimeAdapter::apply_chunk, as the engine sees it.
ApplyChunk(state_root, sid, is_new_chunk, block_hash, receipts) ==
    [ state_root |-> state_root, sid |-> sid, is_new_chunk |-> is_new_chunk,
      block_hash |-> block_hash, receipts |-> receipts ]
\* RuntimeAdapter::apply_chunk: the engine's totals for a new chunk, and
\* nothing burnt for a missing one.
apply_chunk(e, fail, args) ==
    IF Fails(fail, "apply_chunk", NoShard) THEN Err("Other")
    ELSE IF args.is_new_chunk
    THEN Ok(ApplyResult(args.block_hash, shard_id_to_uid(args.sid),
                        e.gas, e.balance, e.proposals, None))
    ELSE Ok(ApplyResult(args.block_hash, shard_id_to_uid(args.sid), 0, 0, <<>>, None))

\* The comparison with < for <=.
source_height_below(block_header, height_included) ==
    height(block_header) < height_included

source_height_at_or_before(block_header, height_included) ==
    height(block_header) <= height_included

\* "Getting actual incoming receipts": the proofs whose source block is at or
\* before the height the chunk was included at, in the order given.
RECURSIVE actual_incoming_receipts(_, _, _)
actual_incoming_receipts(w, incoming_receipts_proofs, height_included) ==
    IF incoming_receipts_proofs = <<>> THEN Ok(<<>>)
    ELSE LET hash == Head(incoming_receipts_proofs)
             block_header == get_block_header(w, hash)
             rest == actual_incoming_receipts(w, Tail(incoming_receipts_proofs),
                                              height_included)
         IN  IF ~IsOk(block_header) THEN block_header
             ELSE IF ~IsOk(rest) THEN rest
             ELSE IF source_height_at_or_before(Val(block_header), height_included)
             THEN Ok(<<hash>> \o Val(rest))
             ELSE rest

\* "Saving all incoming receipts".
RECURSIVE save_all_incoming_receipts(_, _, _)
save_all_incoming_receipts(w, sid, incoming_receipts_proofs) ==
    IF incoming_receipts_proofs = <<>> THEN w
    ELSE save_all_incoming_receipts(
             Put(w, <<"IncomingReceipts", Head(incoming_receipts_proofs), sid>>),
             sid, Tail(incoming_receipts_proofs))

set_state_finalize(w, e, fail, sid, sync_hash, shard_state_header) ==
    LET chunk == shard_state_header.chunk
        incoming_receipts_proofs == shard_state_header.incoming_receipts_proofs
        found == get_block_header_on_chain_by_height(w, fail, sync_hash,
                                                      chunk.height_included)
        block_header == Val(found)
        receipt_proof_response ==
            actual_incoming_receipts(w, incoming_receipts_proofs, chunk.height_included)
        prev_header == get_block_header(w, prev_hash(block_header))
        block == get_block(w, block_header)
        args == ApplyChunk(chunk.prev_state_root, sid, TRUE, block_header,
                           Val(receipt_proof_response))
        applied == apply_chunk(e, fail, args)
        apply_result == Val(applied)
        shard_uid == shard_id_to_uid(sid)
        w1 == Put(w, <<"Chunk", block_header, sid>>)
        w2 == save_trie_changes(merge_flat_state_changes(w1, block_header, shard_uid),
                                block_header, shard_uid)
        chunk_extra == NewChunkExtra(apply_result.new_root,
                                     <<"outcomes", block_header, shard_uid>>,
                                     apply_result.validator_proposals,
                                     apply_result.total_gas_burnt, MaxGas,
                                     apply_result.total_balance_burnt,
                                     apply_result.congestion_info)
        w3 == save_chunk_extra(w2, block_header, shard_uid, chunk_extra)
        w4 == Put(Put(w3, <<"OutgoingReceipts", block_header, sid>>),
                  <<"Outcomes", block_header, sid>>)
        w5 == save_all_incoming_receipts(w4, sid, incoming_receipts_proofs)
    IN  IF ~IsOk(found) THEN SyncOut(w, found, <<>>)
        ELSE IF ~IsOk(receipt_proof_response) THEN SyncOut(w, receipt_proof_response, <<>>)
        ELSE IF height(block_header) # height(GenesisHash) /\ ~IsOk(prev_header)
        THEN SyncOut(w, prev_header, <<>>)
        ELSE IF ~IsOk(block) THEN SyncOut(w, block, <<>>)
        ELSE IF ~IsOk(applied) THEN SyncOut(w, applied, <<args>>)
        ELSE IF Fails(fail, "save_flat_state_changes", shard_uid)
        THEN SyncOut(w1, Err("StorageError"), <<args>>)
        ELSE SyncOut(w5, Ok(shard_uid), <<args>>)

\* Every error of the lookup taken for an answer.
every_height_found(block_header_result) ==
    FALSE

\* if let Err(_) = block_header_result
no_such_height(block_header_result) ==
    ~IsOk(block_header_result)

\* The sync block replayed like the blocks before it.
never_sync_block(block_header, sync_hash) ==
    FALSE

is_sync_block(block_header, sync_hash) ==
    block_header = sync_hash

\* The ChunkExtra looked up at the block itself.
own_chunk_extra(w, block_header, shard_uid) ==
    get_chunk_extra(w, block_header, shard_uid)

\* The ChunkExtra of the block's predecessor.
prev_chunk_extra(w, block_header, shard_uid) ==
    get_chunk_extra(w, prev_hash(block_header), shard_uid)

\* The ChunkExtra of a replayed block, were it made of the apply result as
\* for a new chunk.
replayed_chunk_extra_of_apply_result(chunk_extra, apply_result) ==
    NewChunkExtra(apply_result.new_root, chunk_extra.outcome_root,
                  apply_result.validator_proposals, apply_result.total_gas_burnt,
                  chunk_extra.gas_limit, apply_result.total_balance_burnt,
                  apply_result.congestion_info)
\* "Prepare a chunk extra as a copy of the old chunk extra and apply changes
\* to it": the state root is the apply result's.
replayed_chunk_extra(chunk_extra, apply_result) ==
    [chunk_extra EXCEPT !.state_root = apply_result.new_root]

set_state_finalize_on_height(w, e, fail, block_height, sid, sync_hash) ==
    LET block_header_result ==
            get_block_header_on_chain_by_height(w, fail, sync_hash, block_height)
        block_header == Val(block_header_result)
        block == get_block(w, block_header)
        prev_block_header == get_block_header(w, prev_hash(block_header))
        shard_uid == shard_id_to_uid(sid)
        chunk_extra == prev_chunk_extra(w, block_header, shard_uid)
        args == ApplyChunk(Val(chunk_extra).state_root, sid, FALSE, block_header, <<>>)
        applied == apply_chunk(e, fail, args)
        w1 == save_trie_changes(merge_flat_state_changes(w, block_header, shard_uid),
                                block_header, shard_uid)
        new_chunk_extra == replayed_chunk_extra(Val(chunk_extra), Val(applied))
        w2 == save_chunk_extra(w1, block_header, shard_uid, new_chunk_extra)
    IN  IF no_such_height(block_header_result) THEN SyncOut(w, Ok(TRUE), <<>>)
        ELSE IF ~IsOk(block_header_result) THEN SyncOut(w, block_header_result, <<>>)
        ELSE IF is_sync_block(block_header, sync_hash) THEN SyncOut(w, Ok(FALSE), <<>>)
        ELSE IF ~IsOk(block) THEN SyncOut(w, block, <<>>)
        ELSE IF ~IsOk(prev_block_header) THEN SyncOut(w, prev_block_header, <<>>)
        ELSE IF ~IsOk(chunk_extra) THEN SyncOut(w, chunk_extra, <<>>)
        ELSE IF ~IsOk(applied) THEN SyncOut(w, applied, <<args>>)
        ELSE IF Fails(fail, "save_flat_state_changes", shard_uid)
        THEN SyncOut(w, Err("StorageError"), <<args>>)
        ELSE SyncOut(w2, Ok(TRUE), <<args>>)

\* ------------------------------------------------------------ state
VARIABLES
    store,  \* the committed chain store
    flat,   \* the flat storage heads, shard -> block hash
    upd,    \* the ChainUpdate in flight: its view of the store and its staged keys
    env,    \* what the collaborators answer: the engine's totals, the next layout
    call    \* the last operation: its name, its arguments and what it returned

vars == <<store, flat, upd, env, call>>

\* No ChainUpdate is in flight; ops is the number of operations the last one ran.
NoUpdate == [open |-> FALSE, ok |-> TRUE, ops |-> 0, s |-> GenesisStore, staged |-> {}]
\* The ChainUpdate in flight with what lies outside it: w.db, the committed
\* store, and w.flat, the flat storage heads.
World == [db |-> store, s |-> upd.s, staged |-> upd.staged, flat |-> flat]
NoInfo == BlockPreprocessInfo(TRUE, {}, FALSE, <<>>)
Call(op, block, results, info, fail, save, challenger, res) ==
    [ op |-> op, block |-> block, results |-> results, info |-> info, fail |-> fail,
      save |-> save, challenger |-> challenger, res |-> res ]
NoCall == Call("init", GenesisHash, <<>>, NoInfo, NoFail, FALSE, None, Ok("unit"))

\* The state after an operation on the ChainUpdate that returned out.
Ran(out) ==
    /\ upd' = [open |-> TRUE, ok |-> IsOk(out.res), ops |-> upd.ops + 1,
               s |-> out.w.s, staged |-> out.w.staged]
    /\ flat' = out.w.flat
    /\ store' = out.w.db
    /\ UNCHANGED env
\* A ChainUpdate takes one operation.
CanRun == upd.open /\ upd.ok /\ upd.ops = 0

\* ChainUpdate::new: a store update on the chain store with nothing staged.
new_chain_update(chain_store) ==
    [open |-> TRUE, ok |-> TRUE, ops |-> 0, s |-> chain_store, staged |-> {}]
New ==
    /\ ~upd.open
    /\ upd' = new_chain_update(store)
    /\ call' = [NoCall EXCEPT !.op = "new"]
    /\ UNCHANGED <<store, flat, env>>

\* ChainUpdate::commit, by a caller that commits what returned without error:
\* the store then holds what the ChainStoreUpdate read.
commit(chain_store, chain_update) == chain_update.s
Commit ==
    /\ upd.open /\ upd.ok /\ upd.ops > 0
    /\ store' = commit(store, upd)
    /\ upd' = [NoUpdate EXCEPT !.ops = upd.ops]
    /\ call' = [NoCall EXCEPT !.op = "commit"]
    /\ UNCHANGED <<flat, env>>

\* The ChainUpdate goes out of scope uncommitted.
Drop ==
    /\ upd.open /\ upd.ops > 0
    /\ upd' = [NoUpdate EXCEPT !.ops = upd.ops]
    /\ call' = [NoCall EXCEPT !.op = "drop", !.res = call.res]
    /\ UNCHANGED <<store, flat, env>>

\* ---- inputs of the chain specification
ChainEnv ==
    [ gas |-> MaxGas, balance |-> 1, proposals |-> <<0, 1>>, num_children |-> 2,
      congestion_control |-> FALSE ]
FailAt(step) == [step |-> step, shard |-> NoShard]
ChainFails ==
    { FailAt(st) : st \in { "get_block_header", "save_block_header", "header_head",
                            "last_final_block_header", "add_validator_proposals",
                            "inc_block_refcount", "final_head", "head",
                            "create_light_client_block" } }
      \cup { [step |-> "save_flat_state_changes", shard |-> PlainShard] }
ShardResult(shard, result) == [shard_id |-> shard, result |-> result]
NewChunk(block, shard_uid, e, resharding_results) ==
    ShardUpdateResult("NewChunk", shard_uid,
        ApplyResult(block, shard_uid, e.gas, e.balance, e.proposals,
                    IF e.congestion_control THEN Some("congestion") ELSE None),
        resharding_results)
OldChunk(block, shard_uid, resharding_results) ==
    ShardUpdateResult("OldChunk", shard_uid,
        ApplyResult(block, shard_uid, 0, 0, <<>>, None), resharding_results)
PlainResults(block, e) ==
    <<ShardResult(0, Ok(NewChunk(block, SplitShard, e, None))),
      ShardResult(1, Ok(OldChunk(block, PlainShard, None)))>>
FailedResults(block, e) ==
    <<ShardResult(0, Ok(NewChunk(block, SplitShard, e, None))),
      ShardResult(1, Err("ApplyChunkError"))>>
\* The split shard's chunk is applied together with its children, whose results
\* arrive in descending order.
ReshardingChildren(block, n) ==
    [i \in 1..n |-> ChildResult(block, <<2, n - i>>)]
SplitResults(block, e) ==
    <<ShardResult(0, Ok(NewChunk(block, SplitShard, e,
          Some(ApplyReshardingResults(ReshardingChildren(block, e.num_children)))))),
      ShardResult(1, Ok(OldChunk(block, PlainShard, None)))>>
\* The call that may fail while the children are processed.
SplitFails == { [step |-> "save_flat_state_changes", shard |-> <<2, 0>>] }
\* The shards are split by the block that follows genesis at the next height.
FirstBlock == <<0, 1>>
IsSplitBlock(block) == block = FirstBlock
\* What preprocessing found for a block, but for the blocks it challenges.
PreprocessInfo(block, challenged_blocks) ==
    LET is_caught_up == height(block) % 2 = 1
    IN  BlockPreprocessInfo(is_caught_up, IF is_caught_up THEN {0} ELSE {0, 1},
                            ~is_caught_up, challenged_blocks)
\* One block is marked as challenged in a behaviour.
CanChallenge(w, hash) == w.s.challenged \subseteq {hash}
\* The arguments of postprocess_block for a block: all goes well, with or
\* without a known block to challenge, or a shard's result is an error, or one
\* call fails.
ChainInputs(w, block) ==
    { [info |-> PreprocessInfo(block, ch), results |-> PlainResults(block, env), fail |-> NoFail] :
        ch \in {<<>>} \cup { <<h>> : h \in { x \in w.s.headers \ {block} : CanChallenge(w, x) } } }
    \cup { [info |-> PreprocessInfo(block, <<>>), results |-> FailedResults(block, env),
            fail |-> NoFail] }
    \cup { [info |-> PreprocessInfo(block, <<>>), results |-> PlainResults(block, env),
            fail |-> f] : f \in ChainFails }
    \cup { [info |-> PreprocessInfo(block, <<>>), results |-> SplitResults(block, env),
            fail |-> f] : f \in IF IsSplitBlock(block) THEN {NoFail} \cup SplitFails ELSE {} }
    \cup { [info |-> PreprocessInfo(block, <<h>>), results |-> PlainResults(block, env),
            fail |-> FailAt("get_block_header")] :
              h \in { x \in w.s.headers : CanChallenge(w, x) } }
\* A block that may be processed next: its predecessor has been processed.
Candidates(w) ==
    { b \in Hashes : /\ b \notin w.s.blocks
                     /\ prev_hash(b) \in w.s.blocks
                     /\ Cardinality(w.s.headers \cup {b}) <= MaxBlocks + 1 }

\* postprocess_block of a candidate block, with blocks to challenge or, when
\* challenges is FALSE, only without.
PostprocessBlockWhere(challenges) ==
    /\ CanRun
    /\ \E block \in Candidates(World) :
       \E in \in { i \in ChainInputs(World, block) :
                     challenges \/ i.info.challenged_blocks = <<>> } :
         LET out == postprocess_block(World, env, in.fail, block, in.info, in.results, TRUE)
         IN  /\ Ran(out)
             /\ call' = Call("postprocess_block", block, in.results, in.info, in.fail,
                             TRUE, None, out.res)
PostprocessBlock == PostprocessBlockWhere(TRUE)
PostprocessUnchallengedBlock == PostprocessBlockWhere(FALSE)

\* A header accepted ahead of its block is saved by the header sync.
SaveBlockHeader ==
    /\ CanRun
    /\ \E header \in Hashes :
         /\ header \notin upd.s.headers
         /\ prev_hash(header) \in upd.s.headers
         /\ Cardinality(upd.s.headers) <= MaxBlocks
         /\ Ran(Out(save_block_header(World, header), Ok("unit")))
         /\ call' = [NoCall EXCEPT !.op = "save_block_header", !.block = header]

UpdateHeaderHead ==
    /\ CanRun
    /\ \E header \in upd.s.headers :
       \E fail \in {NoFail, FailAt("header_head"), FailAt("save_header_head")} :
         LET out == update_header_head_if_not_challenged(World, fail, header)
         IN  /\ Ran(out)
             /\ call' = Call("update_header_head_if_not_challenged", header, <<>>,
                             NoInfo, fail, FALSE, None, out.res)

MarkBlockAsChallenged ==
    /\ CanRun
    /\ \E block_hash \in { x \in Hashes : /\ CanChallenge(World, x)
                                          /\ prev_hash(x) \in upd.s.headers } :
       \E challenger \in {None} \cup { Some(h) : h \in upd.s.headers } :
       \E fail \in {NoFail, FailAt("get_block_header")} :
         LET out == mark_block_as_challenged(World, fail, block_hash, challenger)
         IN  /\ Ran(out)
             /\ call' = Call("mark_block_as_challenged", block_hash, <<>>, NoInfo,
                             fail, FALSE, challenger, out.res)

Init ==
    /\ store = GenesisStore
    /\ flat = [su \in {SplitShard, PlainShard} |-> GenesisHash]
    /\ upd = NoUpdate
    /\ env = ChainEnv
    /\ call = NoCall

Next ==
    \/ New
    \/ PostprocessBlock
    \/ MarkBlockAsChallenged
    \/ Commit
    \/ Drop

Spec == Init /\ [][Next]_vars

\* Header sync and block processing with no block challenged.
NextHeaders ==
    \/ New
    \/ SaveBlockHeader
    \/ UpdateHeaderHead
    \/ PostprocessUnchallengedBlock
    \/ Commit
    \/ Drop

SpecHeaders == Init /\ [][NextHeaders]_vars

\* Block processing with challenges by a node whose header sync runs ahead of
\* its blocks: the header of a block may be in the store when the block is
\* processed.
NextHeadersAhead ==
    \/ New
    \/ SaveBlockHeader
    \/ PostprocessBlock
    \/ Commit
    \/ Drop

SpecHeadersAhead == Init /\ [][NextHeadersAhead]_vars

\* ---- shard results: apply_chunk_postprocessing on the block after genesis
\* What the engine and the epoch manager may answer.
ShardEnvs ==
    [ gas : GasValues, balance : 0..MaxGas, proposals : {<<2, 0, 1, 0>>},
      num_children : 1..MaxChildren, congestion_control : BOOLEAN ]
\* The block that follows genesis after a skipped height: it names no last
\* final block.
SkipBlock == <<0, 2>>
\* A block whose predecessor has no ChunkExtra: the shards were not tracked
\* when the predecessor was processed.
OrphanBlock == <<0, 1, 2>>
\* One block has its shard results applied in a behaviour.
ShardBlocks(w) ==
    { b \in {FirstBlock, SkipBlock, OrphanBlock} :
        \A k \in DOMAIN w.s.chunk_extras : k[1] \in {GenesisHash, b} }
Orders(S) ==
    { p \in [1..Cardinality(S) -> S] : \A i, j \in DOMAIN p : p[i] = p[j] => i = j }
\* The results of the n children in every order, with one child missing, and
\* with one child more than the layout gives.
ChildLists(block, n) ==
    { [i \in 1..n |-> ChildResult(block, p[i])] : p \in Orders(ChildShards(n)) }
    \cup { [i \in 1..m |-> ChildResult(block, <<2, i - 1>>)] : m \in {n - 1, n + 1} }
Resharding(shard_uid, resharding_results) ==
    ShardUpdateResult("Resharding", shard_uid, None, Some(resharding_results))
\* The shard results a block may come with: its chunks applied, the split
\* shard's with no resharding, with state changes to store or with its
\* children applied; or, once the block's chunks are applied, the children of
\* the split shard alone.
ShardInputs(w, block, e) ==
    IF block = OrphanBlock
    THEN IF <<block, PlainShard>> \notin DOMAIN w.s.chunk_extras
         THEN { <<OldChunk(block, PlainShard, None)>> }
         ELSE {}
    ELSE IF <<block, SplitShard>> \notin DOMAIN w.s.chunk_extras
    THEN { <<NewChunk(block, SplitShard, e, rr), OldChunk(block, PlainShard, None)>> :
             rr \in {None, Some(StoreReshardingResults)}
                    \cup { Some(ApplyReshardingResults(l)) :
                             l \in ChildLists(block, e.num_children) } }
         \cup { <<OldChunk(block, SplitShard,
                           Some(ApplyReshardingResults(
                                    sort_unstable_by_key(ReshardingChildren(block, e.num_children))))),
                  OldChunk(block, PlainShard, Some(StoreReshardingResults))>> }
    ELSE IF \A su \in AllChildShards : <<block, su>> \notin DOMAIN w.s.chunk_extras
    THEN { <<Resharding(SplitShard, ApplyReshardingResults(l))>> :
             l \in ChildLists(block, e.num_children) }
    ELSE {}

ApplyChunkPostprocessing ==
    /\ CanRun
    /\ \E block \in ShardBlocks(World) :
       \E apply_results \in ShardInputs(World, block, env) :
         LET out == apply_chunk_postprocessing(World, env, NoFail, block, apply_results, FALSE)
         IN  /\ Ran(out)
             /\ call' = Call("apply_chunk_postprocessing", block, apply_results, NoInfo,
                             NoFail, FALSE, None, out.res)

\* apply_chunk_postprocessing once more on the same ChainUpdate, with the
\* arguments of the first call.
ApplyChunkPostprocessingAgain ==
    /\ upd.open /\ upd.ok /\ upd.ops = 1
    /\ call.op = "apply_chunk_postprocessing"
    /\ LET out == apply_chunk_postprocessing(World, env, call.fail, call.block,
                                             call.results, call.save)
       IN  /\ Ran(out)
           /\ call' = [call EXCEPT !.res = out.res]

InitShards ==
    /\ store = GenesisStore
    /\ flat = [su \in {SplitShard, PlainShard} |-> GenesisHash]
    /\ upd = NoUpdate
    /\ env \in ShardEnvs
    /\ call = NoCall

NextShards ==
    \/ New
    \/ ApplyChunkPostprocessing
    \/ ApplyChunkPostprocessingAgain
    \/ Commit
    \/ Drop

SpecShards == InitShards /\ [][NextShards]_vars

\* ---- state sync: a shard finalized at its snapshot chunk, then replayed
\* height by height up to the sync block
\* A block and its ancestors.
Ancestors(hash) == { SubSeq(hash, 1, i) : i \in 1..Len(hash) }
\* The incoming receipt proofs of a snapshot header, named by their source
\* blocks: blocks of the chain to the sync block in ascending order, and
\* possibly last a block whose header the store does not have.
ProofLists(sync_hash) ==
    { [i \in 1..Len(SortedSeq(S)) |-> SubSeq(sync_hash, 1, SortedSeq(S)[i])] \o unknown :
        S \in { T \in SUBSET (1..Len(sync_hash)) : Cardinality(T) <= MaxProofs },
        unknown \in { <<>>, << CHOOSE h \in Hashes : h \notin Ancestors(sync_hash) >> } }
\* The sync job: the engine's totals, the sync block, the shard and its
\* snapshot header, the next height the caller replays (0 until
\* set_state_finalize is committed), whether the replay was told to stop, and
\* whether a step of it took a failed lookup for a height with no block.
SyncJob(sync_hash, included, proofs) ==
    [ gas |-> MaxGas, balance |-> 1, proposals |-> <<0, 1>>,
      sync_hash |-> sync_hash, sid |-> shard_id(PlainShard),
      header |-> ShardStateSyncResponseHeader(height(included),
                                              <<prev_hash(included), PlainShard>>, proofs),
      next |-> 0, done |-> FALSE, swallowed |-> FALSE ]
\* The chunk of the snapshot was included in a block before the sync block.
SyncJobs ==
    UNION { { SyncJob(sync_hash, included, proofs) :
                included \in Ancestors(sync_hash) \ {sync_hash},
                proofs \in ProofLists(sync_hash) } :
            sync_hash \in Hashes \ {GenesisHash} }
\* The store of a node that has synced the headers and blocks up to the sync
\* block and has no ChunkExtra of the shard.
SyncStore(sync_hash) ==
    [ GenesisStore EXCEPT !.headers = Ancestors(sync_hash),
                          !.blocks = Ancestors(sync_hash),
                          !.chunk_extras = [k \in {<<GenesisHash, SplitShard>>}
                                              |-> GenesisChunkExtra(k[2])],
                          !.header_head = TipFromHeader(sync_hash) ]
SyncFails ==
    { NoFail, FailAt("get_block_header_on_chain_by_height"), FailAt("apply_chunk"),
      [step |-> "save_flat_state_changes", shard |-> PlainShard] }

SetStateFinalize ==
    /\ CanRun
    /\ env.next = 0
    /\ \E fail \in SyncFails :
         LET out == set_state_finalize(World, env, fail, env.sid, env.sync_hash, env.header)
         IN  /\ Ran(out)
             /\ call' = Call("set_state_finalize", env.sync_hash, out.applied,
                             [height |-> env.header.chunk.height_included], fail, FALSE,
                             None, out.res)

SetStateFinalizeOnHeight ==
    /\ CanRun
    /\ env.next > 0
    /\ ~env.done
    /\ \E block_height \in 1..(MaxHeight + 1) :
       \E fail \in SyncFails :
         LET out == set_state_finalize_on_height(World, env, fail, block_height,
                                                 env.sid, env.sync_hash)
         IN  /\ Ran(out)
             /\ call' = Call("set_state_finalize_on_height", env.sync_hash, out.applied,
                             [height |-> block_height], fail, FALSE, None, out.res)

\* The caller of the ChainUpdate: it replays the heights after the one the
\* chunk was included at, one ChainUpdate each, and goes on to the next
\* height when a step that returned true is committed.
replay_next(job, last) ==
    IF last.op = "set_state_finalize" /\ IsOk(last.res)
    THEN [job EXCEPT !.next = job.header.chunk.height_included + 1]
    ELSE IF last.op = "set_state_finalize_on_height" /\ last.info.height = job.next
            /\ IsOk(last.res)
    THEN IF Val(last.res)
         THEN [job EXCEPT !.next = @ + 1, !.swallowed = @ \/ last.fail # NoFail]
         ELSE [job EXCEPT !.done = TRUE]
    ELSE job

SyncCommit ==
    /\ upd.open /\ upd.ok /\ upd.ops > 0
    /\ store' = commit(store, upd)
    /\ upd' = [NoUpdate EXCEPT !.ops = upd.ops]
    /\ call' = [NoCall EXCEPT !.op = "commit"]
    /\ env' = replay_next(env, call)
    /\ UNCHANGED flat

\* The ChainUpdate goes out of scope uncommitted: the step is to be made
\* again, unless it was the one that told the replay to stop.
SyncDrop ==
    /\ upd.open /\ upd.ops > 0
    /\ upd' = [NoUpdate EXCEPT !.ops = upd.ops]
    /\ call' = [NoCall EXCEPT !.op = "drop", !.res = call.res]
    /\ env' = IF /\ call.op = "set_state_finalize_on_height"
                 /\ call.info.height = env.next
                 /\ call.res = Ok(FALSE)
              THEN [env EXCEPT !.done = TRUE] ELSE env
    /\ UNCHANGED <<store, flat>>

InitSync ==
    /\ env \in SyncJobs
    /\ store = SyncStore(env.sync_hash)
    /\ flat = [su \in {SplitShard, PlainShard} |-> GenesisHash]
    /\ upd = NoUpdate
    /\ call = NoCall

NextSync ==
    \/ New
    \/ SetStateFinalize
    \/ SetStateFinalizeOnHeight
    \/ SyncCommit
    \/ SyncDrop

SpecSync == InitSync /\ [][NextSync]_vars

\* ------------------------------------------------------------ properties
\* The step is a call of op on the ChainUpdate.
Called(op) == call'.op = op /\ upd.open /\ upd'.ops = upd.ops + 1
HasErr(results) == \E i \in DOMAIN results : ~IsOk(results[i].result)

\* The shard results of a call begin with the split shard's, which come with
\* the apply results of its children.
HasSplit(results) ==
    /\ results # <<>>
    /\ results[1].resharding_results # None
    /\ results[1].resharding_results[1].kind = "Apply"
ChildResultsOf(results) == results[1].resharding_results[1].results
\* The step applies a split with as many child results as the next layout has
\* children, congestion control not being enabled.
SplitApplied ==
    /\ Called("apply_chunk_postprocessing")
    /\ HasSplit(call'.results)
    /\ Len(ChildResultsOf(call'.results)) = env.num_children
    /\ ~env.congestion_control
RECURSIVE SumOver(_, _, _)
SumOver(extras, keys, field) ==
    IF keys = {} THEN 0
    ELSE LET k == CHOOSE k \in keys : TRUE
         IN extras[k][field] + SumOver(extras, keys \ {k}, field)
ChildKeys(block, n) == { <<block, su>> : su \in ChildShards(n) }
\* The child results l in ascending order of shard uid.
Ascending(l) ==
    [ i \in DOMAIN l |->
        l[CHOOSE j \in DOMAIN l :
              Cardinality({ k \in DOMAIN l :
                              ShardUIdLess(l[k].shard_uid, l[j].shard_uid) }) = i - 1] ]
\* What a call returned with the ChunkExtras its ChainUpdate then reads.
Outcome(out) == <<out.res, out.w.s.chunk_extras>>

\* C1: a split with exactly N child results returns Ok, and the gas_used of
\* the child ChunkExtras staged add up to the parent's gas_used and their
\* balance_burnt to the parent's balance_burnt; no call ends in the failure of
\* one of the two closing assertions.
C1_SplitConservesTotals ==
    [][ /\ SplitApplied
           => /\ IsOk(call'.res)
              /\ SumOver(upd'.s.chunk_extras, ChildKeys(call'.block, env.num_children),
                         "gas_used")
                   = upd'.s.chunk_extras[<<call'.block, SplitShard>>].gas_used
              /\ SumOver(upd'.s.chunk_extras, ChildKeys(call'.block, env.num_children),
                         "balance_burnt")
                   = upd'.s.chunk_extras[<<call'.block, SplitShard>>].balance_burnt
        /\ call'.res \notin { Panic("assert_eq!(sum_gas_used, total_gas_used)"),
                              Panic("assert_eq!(sum_balance_burnt, total_balance_burnt)") }
      ]_vars
\* A split into two or more children of totals that the number of children
\* does not divide has been staged from a Resharding result.
C1_Witness ==
    /\ call.op = "apply_chunk_postprocessing"
    /\ upd.open /\ IsOk(call.res)
    /\ call.results[1].kind = "Resharding"
    /\ env.num_children > 1
    /\ env.gas % env.num_children # 0
    /\ env.balance % env.num_children # 0
    /\ upd.s.chunk_extras[<<call.block, SplitShard>>].gas_used = env.gas
    /\ SumOver(upd.s.chunk_extras, ChildKeys(call.block, env.num_children), "gas_used")
         = env.gas

\* C2: in a split into N children the child with the i-th shard uid in
\* ascending order (i from 0) is given total / N of the parent's gas and
\* balance, and one unit more when i < total mod N.
C2_ChildShareFormula ==
    [][ SplitApplied
        => LET n == env.num_children
               parent == upd'.s.chunk_extras[<<call'.block, SplitShard>>]
           IN  /\ IsOk(call'.res)
               /\ \A i \in 0..(n - 1) :
                    LET child == upd'.s.chunk_extras[<<call'.block, <<2, i>>>>]
                    IN  /\ child.gas_used
                             = (parent.gas_used \div n)
                               + (IF i < parent.gas_used % n THEN 1 ELSE 0)
                        /\ child.balance_burnt
                             = (parent.balance_burnt \div n)
                               + (IF i < parent.balance_burnt % n THEN 1 ELSE 0) ]_vars
\* Gas 100 and balance 7 over three children, whose results came in another
\* order than the ascending one: gas 34, 33, 33 and balance 3, 2, 2.
C2_Witness ==
    /\ call.op = "apply_chunk_postprocessing"
    /\ upd.open /\ IsOk(call.res)
    /\ HasSplit(call.results)
    /\ env.num_children = 3
    /\ Len(ChildResultsOf(call.results)) = 3
    /\ ChildResultsOf(call.results)[1].shard_uid # <<2, 0>>
    /\ upd.s.chunk_extras[<<call.block, SplitShard>>].gas_used = 100
    /\ upd.s.chunk_extras[<<call.block, SplitShard>>].balance_burnt = 7
    /\ [i \in 1..3 |-> upd.s.chunk_extras[<<call.block, <<2, i - 1>>>>].gas_used]
         = <<34, 33, 33>>
    /\ [i \in 1..3 |-> upd.s.chunk_extras[<<call.block, <<2, i - 1>>>>].balance_burnt]
         = <<3, 2, 2>>

\* C3: whatever the order of the child results, the call returns the same and
\* the ChunkExtras staged are the same: a call, the child results coming in
\* any of their orders, gives what the call with the child results in
\* ascending order gives on the same ChainUpdate.
C3_ChildOrderIrrelevant ==
    [][ (Called("apply_chunk_postprocessing") /\ HasSplit(call'.results))
        => LET reordered ==
                   [call'.results EXCEPT
                       ![1].resharding_results =
                           Some(ApplyReshardingResults(
                                    Ascending(ChildResultsOf(call'.results))))]
           IN  Outcome(apply_chunk_postprocessing(World, env, call'.fail, call'.block,
                                                  reordered, call'.save))
                 = <<call'.res, upd'.s.chunk_extras>> ]_vars
\* Child results that came in descending order have been staged, and the
\* first shard has the unit of the remainder that the last has not.
C3_Witness ==
    /\ call.op = "apply_chunk_postprocessing"
    /\ upd.open /\ IsOk(call.res)
    /\ HasSplit(call.results)
    /\ env.num_children > 1
    /\ ChildResultsOf(call.results) = ReshardingChildren(call.block, env.num_children)
    /\ upd.s.chunk_extras[<<call.block, <<2, 0>>>>].gas_used
         > upd.s.chunk_extras[<<call.block, <<2, env.num_children - 1>>>>].gas_used

\* C7: a ChainUpdate on which apply_chunk_postprocessing ran twice with the
\* same arguments commits the ChunkExtras that one run on the store gives:
\* one per (block, shard), the children of a split included, with the
\* gas_used and balance_burnt of a single application.
C7_TwiceIsOnce ==
    [][ (call'.op = "commit" /\ call.op = "apply_chunk_postprocessing" /\ upd.ops = 2)
        => LET once == apply_chunk_postprocessing(
                           [db |-> store, s |-> store, staged |-> {}, flat |-> flat],
                           env, call.fail, call.block, call.results, call.save)
           IN  /\ IsOk(once.res)
               /\ store'.chunk_extras = once.w.s.chunk_extras ]_vars
\* A split of gas that the number of children does not divide has been
\* committed by a ChainUpdate that applied it twice.
C7_Witness ==
    /\ call.op = "commit"
    /\ ~upd.open /\ upd.ops = 2
    /\ env.num_children > 1
    /\ env.gas % env.num_children # 0
    /\ <<FirstBlock, <<2, 0>>>> \in DOMAIN store.chunk_extras
    /\ store.chunk_extras[<<FirstBlock, SplitShard>>].gas_used = env.gas
    /\ store.chunk_extras[<<FirstBlock, <<2, 0>>>>].gas_used
         = (env.gas \div env.num_children) + 1

\* C4: when an element of apply_chunks_results is an Err, postprocess_block
\* returns an error that is one of the list's, and stages no write: the
\* ChainStoreUpdate holds no staged key and reads what it read before, for the
\* shards before the failing one too, and the store and the flat storage are
\* as they were.
C4_ErrResultStagesNothing ==
    [][ (Called("postprocess_block") /\ HasErr(call'.results))
        => /\ ~IsOk(call'.res)
           /\ \E i \in DOMAIN call'.results : call'.res = call'.results[i].result
           /\ upd'.staged = upd.staged
           /\ upd'.staged = {}
           /\ upd'.s = upd.s
           /\ store' = store
           /\ flat' = flat ]_vars
\* postprocess_block has returned the error of the second shard, the first
\* shard's result being Ok.
C4_Witness ==
    /\ call.op = "postprocess_block"
    /\ upd.open /\ upd.ops = 1
    /\ Len(call.results) = 2
    /\ IsOk(call.results[1].result)
    /\ call.res = Err("ApplyChunkError")
    /\ call.res = call.results[2].result

\* C5: a postprocess_block that returns an error leaves the committed chain
\* store as it was, whichever step failed, and so does dropping the
\* ChainUpdate afterwards.
C5_FailedBlockLeavesStore ==
    [][ /\ (Called("postprocess_block") /\ ~IsOk(call'.res)) => store' = store
        /\ (call'.op = "drop") => store' = store ]_vars
\* A ChainUpdate has been dropped after postprocess_block failed in the epoch
\* manager, with a block committed before.
C5_Witness ==
    /\ call.op = "drop"
    /\ call.res = Err("EpochError")
    /\ ~upd.open
    /\ store.blocks # {GenesisHash}

\* C6: the flat storage changes only when a ChainUpdate is committed: the
\* flat storage effects of processing a shard result are staged with it.
C6_FlatStorageChangesOnCommit ==
    [][ flat' # flat => call'.op = "commit" ]_vars

\* The last call on the ChainUpdate marked no block as challenged.
NoChallengeMarked ==
    /\ call.op # "mark_block_as_challenged"
    /\ call.info.challenged_blocks = <<>>
\* C9: from one committed state to the next, when the ChainUpdate committed
\* marked no block as challenged, the heights of the header head, the body
\* head and the final head do not decrease.
C9_TipsNonDecreasing ==
    [][ NoChallengeMarked
        => /\ store'.header_head.height >= store.header_head.height
           /\ store'.head.height >= store.head.height
           /\ store'.final_head.height >= store.final_head.height ]_vars
\* A fork block lower than the body head has been processed and committed,
\* with the final head above genesis: no tip moved back.
C9_Witness ==
    /\ call.op = "commit"
    /\ \E b \in store.blocks : /\ height(b) < store.head.height
                               /\ b # SubSeq(store.head.last_block_hash, 1, Len(b))
    /\ store.final_head.height > 0
    /\ store.header_head.height >= store.head.height

\* C10: in every committed state the final head is no higher than the body
\* head.
C10_FinalHeadNotAboveHead ==
    store.final_head.height <= store.head.height
\* A block on a fork lower than the body head has been committed, and the
\* final head is above genesis.
C10_Witness ==
    /\ store.challenged = {}
    /\ store.final_head.height > 0
    /\ \E b \in store.blocks : /\ height(b) < store.head.height
                               /\ b # SubSeq(store.head.last_block_hash, 1, Len(b))
                               /\ last_final_block(b) # DefaultHash

\* C8: a call of update_header_head_if_not_challenged that returns Ok moves
\* the header head to the header's tip and returns Some(tip) when the header
\* is strictly higher than the header head, and else leaves the header head
\* and returns None.
C8_HeaderHeadAdvancesIffHigher ==
    [][ (Called("update_header_head_if_not_challenged") /\ IsOk(call'.res))
        => IF height(call'.block) > upd.s.header_head.height
           THEN /\ upd'.s.header_head = TipFromHeader(call'.block)
                /\ call'.res = Ok(Some(TipFromHeader(call'.block)))
           ELSE /\ upd'.s.header_head = upd.s.header_head
                /\ call'.res = Ok(None) ]_vars
\* The header head has advanced to a header saved ahead of its block.
C8_Witness ==
    /\ call.op = "update_header_head_if_not_challenged"
    /\ call.res = Ok(Some(TipFromHeader(call.block)))
    /\ upd.s.header_head.last_block_hash = call.block
    /\ call.block \notin upd.s.blocks
    /\ store.header_head.height < height(call.block)
\* A header no higher than the header head has left it: the result is None.
C8_WitnessNotHigher ==
    /\ call.op = "update_header_head_if_not_challenged"
    /\ call.res = Ok(None)
    /\ upd.s.header_head = store.header_head
    /\ height(call.block) <= store.header_head.height
    /\ call.block # GenesisHash

\* ------------------------------------------------------- challenged blocks
\* A call of mark_block_as_challenged with no storage failure injected.
Challenges == Called("mark_block_as_challenged") /\ call'.fail = NoFail
\* The block is an ancestor of the tip, or the tip itself.
OnChainOf(tip, block) ==
    Len(block) <= Len(tip.last_block_hash)
    /\ SubSeq(tip.last_block_hash, 1, Len(block)) = block
HeadsOf(s) == <<s.header_head, s.head, s.final_head>>
\* The head the challenge of a block on the chain chooses.
ChosenHead(block, challenger) ==
    IF challenger # None /\ height(challenger[1]) > height(prev_hash(block))
    THEN challenger[1] ELSE prev_hash(block)

\* C11: mark_block_as_challenged on a block hash whose header is not in the
\* store records the hash as challenged, returns Ok and leaves the header
\* head, the body head and the final head as they were.
C11_UnknownBlockOnlyMarked ==
    [][ (Challenges /\ call'.block \notin upd.s.headers)
        => /\ call'.res = Ok("unit")
           /\ upd'.s.challenged = upd.s.challenged \cup {call'.block}
           /\ HeadsOf(upd'.s) = HeadsOf(upd.s) ]_vars
\* A block never seen has been marked as challenged and the mark committed,
\* below a head above genesis.
C11_Witness ==
    /\ call.op = "commit"
    /\ \E b \in store.challenged : b \notin store.headers
    /\ store.head.height > 0

\* C12: mark_block_as_challenged on the block of the chain at its height,
\* returning Ok, sets the head to the challenger when one is given and is
\* strictly higher than the block's predecessor, and else to the predecessor.
C12_HeadAfterChallenge ==
    [][ (Challenges /\ call'.block \in upd.s.headers
         /\ OnChainOf(upd.s.header_head, call'.block) /\ IsOk(call'.res))
        => LET prev == prev_hash(call'.block)
               challenger == call'.challenger
           IN  IF challenger # None /\ height(challenger[1]) > height(prev)
               THEN /\ upd'.s.head = TipFromHeader(challenger[1])
                    /\ upd'.s.header_head = TipFromHeader(challenger[1])
               ELSE /\ upd'.s.head = TipFromHeader(prev)
                    /\ upd'.s.header_head = TipFromHeader(prev) ]_vars
\* The head is a challenger strictly higher than the predecessor of the
\* block challenged, on another fork.
C12_Witness ==
    /\ call.op = "mark_block_as_challenged"
    /\ call.res = Ok("unit")
    /\ call.challenger # None
    /\ call.block \in store.headers
    /\ OnChainOf(store.header_head, call.block)
    /\ height(call.challenger[1]) > height(prev_hash(call.block))
    /\ upd.s.head = TipFromHeader(call.challenger[1])
    /\ upd.s.head # store.head
\* The head is the predecessor: the challenger is no higher than it.
C12_WitnessPredecessor ==
    /\ call.op = "mark_block_as_challenged"
    /\ call.res = Ok("unit")
    /\ call.challenger # None
    /\ call.block \in store.headers
    /\ OnChainOf(store.header_head, call.block)
    /\ height(call.challenger[1]) <= height(prev_hash(call.block))
    /\ upd.s.head = TipFromHeader(prev_hash(call.block))
    /\ upd.s.head # store.head

\* C20: mark_block_as_challenged on a block whose header is known and which
\* is not the block of the chain at its height (another block or none is)
\* records the block as challenged, returns Ok and leaves the header head,
\* the body head and the final head as they were.
C20_OffChainBlockOnlyMarked ==
    [][ (Challenges /\ call'.block \in upd.s.headers
         /\ ~OnChainOf(upd.s.header_head, call'.block))
        => /\ call'.res = Ok("unit")
           /\ upd'.s.challenged = upd.s.challenged \cup {call'.block}
           /\ HeadsOf(upd'.s) = HeadsOf(upd.s) ]_vars
\* A block of a fork, whose predecessor is the head, has been marked.
C20_Witness ==
    /\ call.op = "mark_block_as_challenged"
    /\ call.res = Ok("unit")
    /\ call.block \in store.headers
    /\ ~OnChainOf(store.header_head, call.block)
    /\ call.block \in upd.s.challenged
    /\ height(call.block) > store.header_head.height
\* A block of a fork at a height where the chain has another block.
C20_WitnessOtherBlock ==
    /\ call.op = "mark_block_as_challenged"
    /\ call.block \in store.headers
    /\ ~OnChainOf(store.header_head, call.block)
    /\ call.block \in upd.s.challenged
    /\ \E i \in 1..Len(store.header_head.last_block_hash) :
          store.header_head.last_block_hash[i] = height(call.block)

\* C19: mark_block_as_challenged on the block of the chain at its height
\* either returns Ok with the final head at the last final block of the head
\* it chose, or returns an error when the header of that last final block
\* cannot be read; no committed state pairs a head chosen by a challenge
\* with a final head other than its last final block.
C19_FinalHeadOfChosenHead ==
    [][ /\ (Challenges /\ call'.block \in upd.s.headers
            /\ OnChainOf(upd.s.header_head, call'.block)
            /\ (call'.challenger # None => call'.challenger[1] \in upd.s.headers))
           => LET new_head == ChosenHead(call'.block, call'.challenger)
              IN  IF last_final_block(new_head) \in upd.s.headers
                  THEN /\ call'.res = Ok("unit")
                       /\ upd'.s.head = TipFromHeader(new_head)
                       /\ upd'.s.final_head = TipFromHeader(last_final_block(new_head))
                  ELSE /\ ~IsOk(call'.res)
                       /\ upd'.s.final_head = upd.s.final_head
        /\ (call'.op = "commit" /\ call.op = "mark_block_as_challenged"
            /\ store'.head # store.head)
           => store'.final_head =
                 TipFromHeader(last_final_block(store'.head.last_block_hash)) ]_vars
\* A challenge has moved the head and the final head with it, and the two
\* are committed.
C19_Witness ==
    /\ call.op = "commit"
    /\ store.challenged # {}
    /\ \E b \in store.challenged :
          b \in store.headers /\ store.head.height < height(b)
    /\ store.final_head = TipFromHeader(last_final_block(store.head.last_block_hash))
\* The last final block of the head chosen has no header: the call fails.
C19_WitnessUnreadable ==
    /\ call.op = "mark_block_as_challenged"
    /\ call.fail = NoFail
    /\ call.res = Err("DBNotFoundErr")
    /\ call.block \in store.headers
    /\ OnChainOf(store.header_head, call.block)
    /\ upd.s.head = TipFromHeader(ChosenHead(call.block, call.challenger))
    /\ upd.s.head # store.head
    /\ upd.s.final_head = store.final_head

\* C18: the height of the final head never decreases from one committed
\* state to the next, whether blocks or challenges are committed.
C18_FinalHeadNeverDecreases ==
    [][store'.final_head.height >= store.final_head.height]_vars

\* C16: postprocess_block of a block whose last final block is not the
\* default hash and has no header in the store does not fail for it: with
\* no other failure the call returns Ok, the block is saved and the final
\* head is as it was.
C16_MissingLastFinalIsNotAnError ==
    [][ (Called("postprocess_block")
         /\ call'.fail = FailAt("last_final_block_header")
         /\ last_final_block(call'.block) # DefaultHash
         /\ ~HasErr(call'.results)
         /\ call'.info.challenged_blocks = <<>>)
        => /\ IsOk(call'.res)
           /\ call'.block \in upd'.s.blocks
           /\ upd'.s.final_head = upd.s.final_head ]_vars

\* ------------------------------------------------------------- state sync
\* A call of set_state_finalize_on_height with no failure injected.
Replays == Called("set_state_finalize_on_height") /\ call'.fail = NoFail
\* The block at a height on the chain to the sync block, if any.
OnChainAt(sync_hash, block_height) ==
    { a \in Ancestors(sync_hash) : height(a) = block_height }

\* C13: set_state_finalize_on_height at the height of the sync block itself
\* returns Ok(false) and stages nothing: no ChunkExtra, trie changes or flat
\* state changes, and the execution engine is not called.
C13_SyncBlockStops ==
    [][ (Replays /\ call'.info.height = height(env.sync_hash))
        => /\ call'.res = Ok(FALSE)
           /\ upd'.staged = {}
           /\ upd'.s = upd.s
           /\ flat' = flat
           /\ call'.results = <<>> ]_vars
\* The replay has reached the sync block after replaying a block before it.
C13_Witness ==
    /\ call.op = "set_state_finalize_on_height"
    /\ call.fail = NoFail
    /\ call.info.height = height(env.sync_hash)
    /\ env.next = height(env.sync_hash)
    /\ call.res = Ok(FALSE)
    /\ <<prev_hash(env.sync_hash), PlainShard>> \in DOMAIN store.chunk_extras
    /\ height(prev_hash(env.sync_hash)) > env.header.chunk.height_included

\* C14: set_state_finalize_on_height at a height where the chain to the sync
\* block has no block returns Ok(true) and stages nothing.
C14_MissingHeightContinues ==
    [][ (Replays /\ OnChainAt(env.sync_hash, call'.info.height) = {})
        => /\ call'.res = Ok(TRUE)
           /\ upd'.staged = {}
           /\ upd'.s = upd.s
           /\ flat' = flat
           /\ call'.results = <<>> ]_vars
\* The replay has passed a height skipped between the chunk's block and the
\* sync block.
C14_Witness ==
    /\ call.op = "set_state_finalize_on_height"
    /\ call.fail = NoFail
    /\ call.info.height = env.next
    /\ call.info.height < height(env.sync_hash)
    /\ call.info.height > env.header.chunk.height_included
    /\ OnChainAt(env.sync_hash, call.info.height) = {}
    /\ call.res = Ok(TRUE)
    /\ upd.staged = {}
\* A height above the sync block.
C14_WitnessAbove ==
    /\ call.op = "set_state_finalize_on_height"
    /\ call.fail = NoFail
    /\ call.info.height > height(env.sync_hash)
    /\ call.res = Ok(TRUE)
    /\ upd.staged = {}

\* The shard has a ChunkExtra at the block in the store s.
HasChunkExtra(s, block) == <<block, PlainShard>> \in DOMAIN s.chunk_extras
\* The blocks of the chain to the sync block from the one that included the
\* snapshot's chunk up to the one before the sync block.
ReplayedBlocks(job) ==
    { a \in Ancestors(job.sync_hash) :
        /\ job.header.chunk.height_included <= height(a)
        /\ height(a) < height(job.sync_hash) }

\* C15: with set_state_finalize committed and set_state_finalize_on_height
\* called for each height after the chunk's, every step committed and every
\* lookup answered by the store, each call returns Ok, a call for a height with a block before the sync block finds
\* the ChunkExtra of the block's predecessor and stages the block's, the call
\* returns false at the height of the sync block and at no height before it,
\* and when the replay has stopped every block from the chunk's to the one
\* before the sync block has a ChunkExtra of the shard.
C15_ReplayReachesSyncBlock ==
    [][ /\ (Replays /\ call'.info.height = env.next /\ ~env.swallowed)
           => /\ env.next <= height(env.sync_hash)
              /\ IsOk(call'.res)
              /\ (call'.res = Ok(FALSE)) <=> (env.next = height(env.sync_hash))
              /\ \A a \in OnChainAt(env.sync_hash, env.next) \ {env.sync_hash} :
                    /\ HasChunkExtra(upd.s, prev_hash(a))
                    /\ HasChunkExtra(upd'.s, a)
        /\ (env'.done /\ ~env'.swallowed) => \A a \in ReplayedBlocks(env') : HasChunkExtra(store', a) ]_vars
\* The replay has stopped at the sync block after replaying at least one
\* block on top of the one that included the chunk.
C15_Witness ==
    /\ env.done
    /\ ~env.swallowed
    /\ height(prev_hash(env.sync_hash)) > env.header.chunk.height_included
    /\ \A a \in ReplayedBlocks(env) : HasChunkExtra(store, a)
    /\ store.chunk_extras[<<prev_hash(env.sync_hash), PlainShard>>].state_root
          = <<prev_hash(env.sync_hash), PlainShard>>

\* The source blocks of the incoming receipts staged.
SavedIncoming(staged) ==
    { k[2] : k \in { x \in staged : x[1] = "IncomingReceipts" } }
Range(l) == { l[i] : i \in DOMAIN l }
\* The proofs of a snapshot header whose source block is at or before the
\* height the chunk was included at.
ProofsForChunk(header) ==
    { hash \in Range(header.incoming_receipts_proofs) :
        height(hash) <= header.chunk.height_included }

\* C17 as stated: the incoming receipt proofs set_state_finalize stages are
\* exactly those given to the execution of the chunk, the ones whose source
\* block is at or before the chunk's inclusion height.
C17_SavedProofsAreFiltered ==
    [][ (Called("set_state_finalize") /\ IsOk(call'.res))
        => SavedIncoming(upd'.staged) = ProofsForChunk(env.header) ]_vars

\* C17: set_state_finalize gives the execution of the chunk the proofs whose
\* source block is at or before the chunk's inclusion height, and stages for
\* persistence every proof of the snapshot header, also those of a source
\* block above that height.
C17_SavedProofsAreAll ==
    [][ (Called("set_state_finalize") /\ IsOk(call'.res))
        => /\ Len(call'.results) = 1
           /\ Range(call'.results[1].receipts) = ProofsForChunk(env.header)
           /\ SavedIncoming(upd'.staged) = Range(env.header.incoming_receipts_proofs) ]_vars
\* A proof of a source block above the inclusion height, and one at it: the
\* first is staged and is not given to the execution, the second is both.
C17_Witness ==
    /\ call.op = "set_state_finalize"
    /\ IsOk(call.res)
    /\ \E hash \in SavedIncoming(upd.staged) :
          /\ height(hash) > env.header.chunk.height_included
          /\ hash \notin Range(call.results[1].receipts)
    /\ \E hash \in SavedIncoming(upd.staged) :
          /\ height(hash) = env.header.chunk.height_included
          /\ hash \in Range(call.results[1].receipts)

\* ------------------------------------------------------ children of a split
\* What is staged for a child shard: ChunkExtra, trie and flat state changes.
StagedForChildren(staged) ==
    { k \in staged : /\ k[1] \in {"ChunkExtra", "TrieChanges", "FlatStateChanges"}
                     /\ k[3][1] = 2 }
\* A call that comes with the apply results of the children of the split.
SplitCalled == Called("apply_chunk_postprocessing") /\ HasSplit(call'.results)

\* C21: every child ChunkExtra staged by a split has the parent ChunkExtra's
\* outcome root and gas limit, and as state root the new_root of the child's
\* own apply result.
C21_ChildCarriesParentRoots ==
    [][ SplitApplied
        => LET parent == upd'.s.chunk_extras[<<call'.block, SplitShard>>]
               children == ChildResultsOf(call'.results)
           IN  /\ IsOk(call'.res)
               /\ \A i \in DOMAIN children :
                    LET child == upd'.s.chunk_extras[<<call'.block, children[i].shard_uid>>]
                    IN  /\ child.outcome_root = parent.outcome_root
                        /\ child.gas_limit = parent.gas_limit
                        /\ child.state_root = children[i].new_root
                        /\ child.state_root # parent.state_root ]_vars
\* Three children staged next to a parent that is a new chunk of the block.
C21_Witness ==
    /\ call.op = "apply_chunk_postprocessing"
    /\ upd.open /\ IsOk(call.res)
    /\ HasSplit(call.results)
    /\ call.results[1].kind = "NewChunk"
    /\ env.num_children = 3
    /\ \A i \in 0..2 :
          /\ <<call.block, <<2, i>>>> \in DOMAIN upd.s.chunk_extras
          /\ upd.s.chunk_extras[<<call.block, <<2, i>>>>].outcome_root
               = <<"outcomes", call.block, SplitShard>>

\* C22: a split hands each proposal of the parent ChunkExtra to the child
\* that owns its account in the next epoch's layout: a child's proposals are
\* the parent's proposals of its accounts in the parent's order, so that
\* every proposal is in exactly one child.
C22_ProposalsPartitioned ==
    [][ SplitApplied
        => LET n == env.num_children
               parent == upd'.s.chunk_extras[<<call'.block, SplitShard>>]
               child(i) == upd'.s.chunk_extras[<<call'.block, <<2, i>>>>]
           IN  /\ \A i \in 0..(n - 1) :
                    child(i).validator_proposals
                      = SelectSeq(parent.validator_proposals, LAMBDA a : a % n = i)
               /\ SumOver([i \in 0..(n - 1) |-> [len |-> Len(child(i).validator_proposals)]],
                          0..(n - 1), "len")
                    = Len(parent.validator_proposals) ]_vars
\* Four proposals of three accounts, two of them of one account, over two
\* children: the first child has three in the parent's order.
C22_Witness ==
    /\ call.op = "apply_chunk_postprocessing"
    /\ upd.open /\ IsOk(call.res)
    /\ HasSplit(call.results)
    /\ env.num_children = 2
    /\ Len(ChildResultsOf(call.results)) = 2
    /\ upd.s.chunk_extras[<<call.block, SplitShard>>].validator_proposals = <<2, 0, 1, 0>>
    /\ upd.s.chunk_extras[<<call.block, <<2, 0>>>>].validator_proposals = <<2, 0, 0>>
    /\ upd.s.chunk_extras[<<call.block, <<2, 1>>>>].validator_proposals = <<1>>

\* C23: with congestion control enabled a call that comes with the apply
\* results of the children does not return Ok and stages nothing for a child;
\* with a result for every child it stops at the todo.
C23_CongestionControlStopsSplit ==
    [][ (SplitCalled /\ env.congestion_control)
        => /\ ~IsOk(call'.res)
           /\ StagedForChildren(upd'.staged) = {}
           /\ flat' = flat
           /\ Len(ChildResultsOf(call'.results)) = env.num_children
                => call'.res = Panic("todo: resharding and congestion control") ]_vars
\* The todo has been reached after the parent's ChunkExtra was staged.
C23_Witness ==
    /\ call.op = "apply_chunk_postprocessing"
    /\ env.congestion_control
    /\ HasSplit(call.results)
    /\ call.results[1].kind = "NewChunk"
    /\ call.res = Panic("todo: resharding and congestion control")
    /\ <<"ChunkExtra", call.block, SplitShard>> \in upd.staged
    /\ StagedForChildren(upd.staged) = {}

\* C24: a call whose child apply results are fewer or more than the children
\* of the next epoch's layout stops at the assertion on their number with
\* nothing staged for a child, and no committed store has the ChunkExtra of
\* some children of a block and not of the others.
C24_ChildCountMismatchIsFatal ==
    [][ /\ (SplitCalled /\ Len(ChildResultsOf(call'.results)) # env.num_children)
           => /\ call'.res = Panic("assert_eq!(num_split_shards, results.len())")
              /\ StagedForChildren(upd'.staged) = {}
              /\ flat' = flat
        /\ \A block \in {FirstBlock, SkipBlock} :
              \/ \A su \in ChildShards(env.num_children) :
                    <<block, su>> \in DOMAIN store'.chunk_extras
              \/ \A su \in AllChildShards :
                    <<block, su>> \notin DOMAIN store'.chunk_extras ]_vars
\* One result more than the layout has children.
C24_Witness ==
    /\ call.op = "apply_chunk_postprocessing"
    /\ HasSplit(call.results)
    /\ Len(ChildResultsOf(call.results)) = env.num_children + 1
    /\ call.res = Panic("assert_eq!(num_split_shards, results.len())")
    /\ StagedForChildren(upd.staged) = {}
\* One result fewer, of a layout with two children or more.
C24_WitnessMissing ==
    /\ call.op = "apply_chunk_postprocessing"
    /\ HasSplit(call.results)
    /\ env.num_children >= 2
    /\ Len(ChildResultsOf(call.results)) = env.num_children - 1
    /\ call.res = Panic("assert_eq!(num_split_shards, results.len())")
    /\ StagedForChildren(upd.staged) = {}


\* ------------------------------------------------------------ a block with
\* no new chunk of a shard
OldChunkResults(results) ==
    { i \in DOMAIN results : results[i].kind = "OldChunk" }

\* C25: for an OldChunk result the ChunkExtra staged for the block and shard
\* is the predecessor's in every field but the state root, which is the apply
\* result's new root; no outgoing receipts and no outcomes are staged for the
\* shard; and with no ChunkExtra of the predecessor the call fails and stages
\* no ChunkExtra for the shard.
C25_OldChunkCarriesPredecessor ==
    [][Called("apply_chunk_postprocessing") =>
        \A i \in OldChunkResults(call'.results) :
          LET r == call'.results[i]
              key == <<call'.block, r.shard_uid>>
              prev == <<prev_hash(call'.block), r.shard_uid>>
          IN  /\ <<"OutgoingReceipts", call'.block, shard_id(r.shard_uid)>> \notin upd'.staged
              /\ <<"Outcomes", call'.block, shard_id(r.shard_uid)>> \notin upd'.staged
              /\ prev \notin DOMAIN upd.s.chunk_extras =>
                    /\ ~IsOk(call'.res)
                    /\ <<"ChunkExtra", call'.block, r.shard_uid>> \notin upd'.staged
              /\ IsOk(call'.res) =>
                    /\ prev \in DOMAIN upd.s.chunk_extras
                    /\ <<"ChunkExtra", call'.block, r.shard_uid>> \in upd'.staged
                    /\ upd'.s.chunk_extras[key].state_root = r.apply_result.new_root
                    /\ upd'.s.chunk_extras[key].state_root
                          # upd.s.chunk_extras[prev].state_root
                    /\ \A f \in DOMAIN upd'.s.chunk_extras[key] \ {"state_root"} :
                          upd'.s.chunk_extras[key][f] = upd.s.chunk_extras[prev][f]]_vars
\* An OldChunk result has been applied next to a new chunk of the other
\* shard, whose tallies are not those of its predecessor.
C25_Witness ==
    /\ call.op = "apply_chunk_postprocessing"
    /\ IsOk(call.res)
    /\ upd.open
    /\ \E i \in OldChunkResults(call.results) :
          /\ <<"ChunkExtra", call.block, call.results[i].shard_uid>> \in upd.staged
          /\ \E j \in DOMAIN call.results :
                /\ call.results[j].kind = "NewChunk"
                /\ call.results[j].apply_result.total_gas_burnt > 0
\* An OldChunk result of a block whose predecessor has no ChunkExtra has
\* failed the call.
C25_WitnessMissing ==
    /\ call.op = "apply_chunk_postprocessing"
    /\ call.block = OrphanBlock
    /\ ~IsOk(call.res)
    /\ upd.open
    /\ upd.staged = {}


\* ------------------------------------------------------------ a replayed
\* block
\* set_state_finalize_on_height is called for the height of block a, a block
\* before the sync block whose predecessor has a ChunkExtra of the shard, and
\* the lookup of the height is answered by the store.
ReplaysBlock(a) ==
    /\ Called("set_state_finalize_on_height")
    /\ a \in OnChainAt(env.sync_hash, call'.info.height) \ {env.sync_hash}
    /\ HasChunkExtra(upd.s, prev_hash(a))
    /\ call'.fail.step # "get_block_header_on_chain_by_height"

\* C26: set_state_finalize_on_height for a height whose block is not the sync
\* block applies the block with no chunk on the predecessor's state root,
\* stages for the block and shard the predecessor's ChunkExtra with the state
\* root replaced by the new root of that application, and returns true; when
\* the application fails the failure is returned and nothing is staged.
C26_ReplayedBlockCarriesPredecessor ==
    [][\A a \in Hashes : ReplaysBlock(a) =>
          LET old == upd.s.chunk_extras[<<prev_hash(a), PlainShard>>]
              args == ApplyChunk(old.state_root, shard_id(PlainShard), FALSE, a, <<>>)
          IN  /\ call'.fail = NoFail =>
                    /\ call'.res = Ok(TRUE)
                    /\ call'.results = <<args>>
                    /\ <<"ChunkExtra", a, PlainShard>> \in upd'.staged
                    /\ HasChunkExtra(upd'.s, a)
                    /\ LET new == upd'.s.chunk_extras[<<a, PlainShard>>]
                       IN  /\ new.state_root = Val(apply_chunk(env, NoFail, args)).new_root
                           /\ new.state_root # old.state_root
                           /\ \A f \in DOMAIN new \ {"state_root"} : new[f] = old[f]
              /\ call'.fail = FailAt("apply_chunk") =>
                    /\ call'.res = Err("Other")
                    /\ upd'.staged = {}
                    /\ upd'.s = upd.s
                    /\ flat' = flat ]_vars
\* A block has been replayed on a predecessor whose ChunkExtra holds the
\* tallies of the snapshot's chunk.
C26_Witness ==
    /\ call.op = "set_state_finalize_on_height"
    /\ call.fail = NoFail
    /\ call.res = Ok(TRUE)
    /\ upd.open
    /\ \E a \in OnChainAt(env.sync_hash, call.info.height) :
          /\ <<"ChunkExtra", a, PlainShard>> \in upd.staged
          /\ upd.s.chunk_extras[<<prev_hash(a), PlainShard>>].gas_used > 0
          /\ upd.s.chunk_extras[<<a, PlainShard>>].gas_used > 0
\* The application has failed for a block whose predecessor has a ChunkExtra.
C26_WitnessFailure ==
    /\ call.op = "set_state_finalize_on_height"
    /\ call.fail = FailAt("apply_chunk")
    /\ call.res = Err("Other")
    /\ upd.open
    /\ upd.staged = {}
    /\ \E a \in OnChainAt(env.sync_hash, call.info.height) \ {env.sync_hash} :
          HasChunkExtra(upd.s, prev_hash(a))


\* ------------------------------------------------------------ the epoch
\* light client block
EpochLightClientBlocks(keys) ==
    { k \in keys : k[1] = "EpochLightClientBlock" }

\* C27: a successful postprocess_block stages an epoch light client block
\* exactly when its head update made the block the body head, the block's
\* epoch is not its predecessor's and the predecessor names a last final
\* block; it is then the one record made of the predecessor's header under the
\* predecessor's epoch, and a block that did not become the head stages none.
C27_LightClientBlockOnEpochSwitch ==
    [][(Called("postprocess_block") /\ IsOk(call'.res)) =>
          LET block == call'.block
              prev == prev_hash(block)
              became_head == /\ Val(call'.res) = Some(TipFromHeader(block))
                             /\ upd'.s.head = TipFromHeader(block)
          IN  /\ Val(call'.res) # None => became_head
              /\ EpochLightClientBlocks(upd'.staged) =
                    IF /\ became_head
                       /\ epoch_id(block) # epoch_id(prev)
                       /\ last_final_block(prev) # DefaultHash
                    THEN {<<"EpochLightClientBlock", epoch_id(prev), prev>>}
                    ELSE {}
              /\ EpochLightClientBlocks(upd'.staged)
                    \subseteq EpochLightClientBlocks(upd'.s.records)
              /\ EpochLightClientBlocks(upd'.s.records)
                    \subseteq EpochLightClientBlocks(upd.s.records)
                                \cup EpochLightClientBlocks(upd'.staged) ]_vars
\* The first block of an epoch has become the head on a predecessor that
\* names a last final block.
C27_Witness ==
    /\ call.op = "postprocess_block"
    /\ IsOk(call.res)
    /\ upd.open
    /\ Val(call.res) = Some(TipFromHeader(call.block))
    /\ <<"EpochLightClientBlock", epoch_id(prev_hash(call.block)), prev_hash(call.block)>>
          \in upd.staged
\* The first block of an epoch on such a predecessor has not become the head.
C27_WitnessNotHead ==
    /\ call.op = "postprocess_block"
    /\ call.res = Ok(None)
    /\ upd.open
    /\ epoch_id(call.block) # epoch_id(prev_hash(call.block))
    /\ last_final_block(prev_hash(call.block)) # DefaultHash
    /\ EpochLightClientBlocks(upd.staged) = {}
\* The first block of an epoch has become the head on a predecessor that
\* names no last final block.
C27_WitnessNoFinal ==
    /\ call.op = "postprocess_block"
    /\ IsOk(call.res)
    /\ upd.open
    /\ Val(call.res) = Some(TipFromHeader(call.block))
    /\ epoch_id(call.block) # epoch_id(prev_hash(call.block))
    /\ last_final_block(prev_hash(call.block)) = DefaultHash
    /\ EpochLightClientBlocks(upd.staged) = {}


\* ------------------------------------------------------------ the head
\* moved by postprocess_block
\* C28: whenever the body head after a successful postprocess_block is not the
\* body head before it, the call returns Some(tip) of the new head, also when
\* the head was moved by marking one of the block's challenged blocks with
\* the block as challenger.
C28_HeadMoveReturnsTip ==
    [][(Called("postprocess_block") /\ IsOk(call'.res) /\ upd'.s.head # upd.s.head)
          => call'.res = Ok(Some(upd'.s.head))]_vars


\* ------------------------------------------------------------ the head and
\* the challenged blocks
\* C29: in every state reached by postprocess_block and
\* mark_block_as_challenged in any order the committed body head is not a
\* block marked as challenged, also when the block was marked before it was
\* known and processed afterwards.
C29_HeadIsNotChallenged ==
    store.head.last_block_hash \notin store.challenged
\* A block marked as challenged while unknown has been processed and has
\* become the body head.
C29_ChallengedBlockBecomesHead ==
    /\ call.op = "postprocess_block"
    /\ upd.open
    /\ call.block \in store.challenged
    /\ call.info.challenged_blocks = <<>>
    /\ call.fail = NoFail
    /\ call.res = Ok(Some(TipFromHeader(call.block)))
    /\ upd.s.head = TipFromHeader(call.block)


\* ------------------------------------------------------------ the lookup
\* of the height
\* C30: in set_state_finalize_on_height only a lookup that finds no block at
\* the height (no header, or no such height on the chain to the sync block)
\* yields Ok(true); any other failure of the lookup is returned as the error.
C30_OnlyNotFoundContinues ==
    [][Called("set_state_finalize_on_height") =>
          LET block_header_result ==
                  get_block_header_on_chain_by_height(World, call'.fail, env.sync_hash,
                                                      call'.info.height)
          IN  (/\ ~IsOk(block_header_result)
               /\ block_header_result.e \notin {"DBNotFoundErr", "InvalidBlockHeight"})
                  => call'.res = block_header_result ]_vars

====
